---- MODULE Spec2Model ----
(***************************************************************************)
(* A model of the flat-key codec of the jabascript packages.               *)
(*                                                                         *)
(* Strings are sequences of one-character strings, so that split,          *)
(* endsWith, indexOf, substring and parseInt are computed character by     *)
(* character as the engine computes them.  JavaScript objects live in a    *)
(* heap of records (class, prototype, own properties, array length); a     *)
(* value is a primitive or a reference into the heap, and property reads   *)
(* follow the prototype chain.                                             *)
(*                                                                         *)
(* The module goes on with createURL, with debounce and the hook           *)
(* useDelayedToggleState over a queue of timers and a clock, and with the  *)
(* Result class.                                                           *)
(***************************************************************************)
EXTENDS Integers, Sequences, FiniteSets, TLC

VARIABLES
    sepArg,     \* parseFormData: the second argument as passed (Omitted when absent)
    separator,  \* parseFormData: the `separator` parameter
    data,       \* parseFormData: the entries the for-of loop has taken so far
    heap,       \* the objects that exist: the built-ins, then those the call creates
    fields,     \* the keys the FormData of this run may carry
    pc,         \* parseFormData: "loop", "returned" or "threw"
    err,        \* the kind of the error thrown ("" when none)
    ret,        \* the value handed to the caller (0 until the call returns)
    allowFalsy, \* parseSearchParams, createSearchParams: the `allowFalsy` parameter
    params,     \* createSearchParams: the address of the `params` object
    pairs,      \* createSearchParams: `x`, the entries of params
    ix,         \* createSearchParams: `i`, the position in x
    source,     \* createSearchParams: the entries of the URLSearchParams `source`
    base,       \* createURL: the `base` argument, a string or a URL object
    urls,       \* the URL objects that exist
    url,        \* createURL: the local `url` (0 outside a call of createURL)
    decoded,    \* the address of `result` when parseSearchParams is applied to
                \* what createSearchParams returned (0 before that)
    delay,      \* debounce, useDelayedToggleState: the `delay` parameter
    timeoutId,  \* debounce: `timeoutId` (0 while undefined)
    timers,     \* the timers setTimeout has made that are still to fire
    created,    \* the number of timers setTimeout has made
    clock,      \* the time in ms
    log,        \* debounce: the calls of run and clear and the invocations of func;
                \* useDelayedToggleState: the calls of the setter
    toggled,    \* useDelayedToggleState: the state `toggled`
    delayed,    \* useDelayedToggleState: the state `delayed`
    seen,       \* useDelayedToggleState: the `toggled` the setter has captured
    results,    \* Result: the Results made, each with the call that made it
    raised      \* Result: what the last call of Result.run threw (NoThrow when nothing)

vars == <<sepArg, separator, data, fields, heap, pc, err, ret,
          allowFalsy, params, pairs, ix, source, base, urls, url, decoded,
          delay, timeoutId, timers, created, clock, log, toggled, delayed, seen,
          results, raised>>

\* What each function leaves alone: the variables of the others.
formVars == <<sepArg, separator>>

queryVars == <<allowFalsy, params, pairs, ix, source>>

urlVars == <<base, urls, url>>

\* The variables of the functions modelled after the codec.
roundVars == <<decoded>>

timerVars == <<delay, timeoutId, timers, created, clock, log>>

\* The variables of the functions that are no part of the query package.
hookVars == <<toggled, delayed, seen>>

resultVars == <<results, raised>>

afterVars == <<timerVars, hookVars, resultVars>>

laterVars == <<urlVars, roundVars, afterVars>>

\* The number of entries the modelled FormData may hold.
MaxEntries == 3

(***************************************************************************)
(* Strings                                                                 *)
(***************************************************************************)
Digits == <<"0", "1", "2", "3", "4", "5", "6", "7", "8", "9">>

IsDigit(c) == \E i \in 1..10 : Digits[i] = c

DigitVal(c) == (CHOOSE i \in 1..10 : Digits[i] = c) - 1

IsSpace(c) == c = " "

Min(a, b) == IF a < b THEN a ELSE b

Max(a, b) == IF a > b THEN a ELSE b

\* String.prototype.substring(a, b): both ends clamped to [0, length], swapped
\* when a > b; positions are 0-based and b is exclusive.
Substring(s, a, b) ==
    LET ca == Max(0, Min(a, Len(s)))
        cb == Max(0, Min(b, Len(s)))
    IN  SubSeq(s, Min(ca, cb) + 1, Max(ca, cb))

\* String.prototype.endsWith(t)
EndsWith(s, t) ==
    /\ Len(t) <= Len(s)
    /\ SubSeq(s, Len(s) - Len(t) + 1, Len(s)) = t

\* String.prototype.indexOf(t): the 0-based position of the first occurrence, or -1.
IndexOf(s, t) ==
    LET hits == {i \in 0..(Len(s) - Len(t)) : SubSeq(s, i + 1, i + Len(t)) = t}
    IN  IF hits = {} THEN -1 ELSE CHOOSE i \in hits : \A j \in hits : i <= j

\* A split that stops at the first separator.
SplitOnce(s, sep) ==
    LET at == IndexOf(s, sep)
    IN  IF at = -1 THEN <<s>>
        ELSE <<SubSeq(s, 1, at), SubSeq(s, at + Len(sep) + 1, Len(s))>>

\* String.prototype.split(sep) with a string separator.
RECURSIVE Split(_, _)
Split(s, sep) ==
    IF sep = <<>>
    THEN [i \in 1..Len(s) |-> <<s[i]>>]
    ELSE LET at == IndexOf(s, sep)
         IN  IF at = -1
             THEN <<s>>
             ELSE <<SubSeq(s, 1, at)>> \o Split(SubSeq(s, at + Len(sep) + 1, Len(s)), sep)

\* The value of a run of decimal digits.
RECURSIVE DigitsValue(_)
DigitsValue(s) ==
    IF s = <<>> THEN 0
    ELSE 10 * DigitsValue(SubSeq(s, 1, Len(s) - 1)) + DigitVal(s[Len(s)])

\* The longest prefix of s made of decimal digits.
RECURSIVE DigitPrefix(_)
DigitPrefix(s) ==
    IF s = <<>> \/ ~IsDigit(s[1]) THEN <<>>
    ELSE <<s[1]>> \o DigitPrefix(Tail(s))

RECURSIVE TrimStart(_)
TrimStart(s) == IF s # <<>> /\ IsSpace(s[1]) THEN TrimStart(Tail(s)) ELSE s

\* Number.parseInt(s, 10): leading white space is skipped, one sign is taken,
\* then the longest run of digits; what follows the run is ignored.  No digit
\* at all gives NaN.  -0 is kept as 0: it is not < 0 and names property "0".
ParseInt(s) ==
    LET t    == TrimStart(s)
        neg  == t # <<>> /\ t[1] = "-"
        body == IF t # <<>> /\ t[1] \in {"-", "+"} THEN Tail(t) ELSE t
        run  == DigitPrefix(body)
    IN  IF run = <<>>
        THEN [nan |-> TRUE, n |-> 0]
        ELSE [nan |-> FALSE, n |-> IF neg THEN 0 - DigitsValue(run) ELSE DigitsValue(run)]

\* String(n) of a non-negative integer: the property key of obj[n].
RECURSIVE ToStr(_)
ToStr(n) ==
    IF n < 10 THEN <<Digits[n + 1]>>
    ELSE ToStr(n \div 10) \o <<Digits[(n % 10) + 1]>>

\* An array index as a property key: canonical decimal digits.
IsIndexKey(name) ==
    /\ name # <<>>
    /\ \A i \in 1..Len(name) : IsDigit(name[i])
    /\ (Len(name) > 1 => name[1] # "0")

(***************************************************************************)
(* Values and the heap                                                     *)
(***************************************************************************)
Undefined == [t |-> "undefined", s |-> <<>>, n |-> 0]

StrVal(s) == [t |-> "string", s |-> s, n |-> 0]

NumVal(n) == [t |-> "number", s |-> <<>>, n |-> n]

Ref(a) == [t |-> "object", s |-> <<>>, n |-> a]

Null == [t |-> "null", s |-> <<>>, n |-> 0]

\* value === undefined || value === null
IsNullish(val) == val.t \in {"undefined", "null"}

IsRef(val) == val.t = "object"

\* f with f[k] set to v, k added to its domain when new
Put(f, k, v) == [x \in (DOMAIN f) \cup {k} |-> IF x = k THEN v ELSE f[x]]

NameConstructor == <<"c", "o", "n", "s", "t", "r", "u", "c", "t", "o", "r">>

NamePrototype == <<"p", "r", "o", "t", "o", "t", "y", "p", "e">>

NameLength == <<"l", "e", "n", "g", "t", "h">>

NameToString == <<"t", "o", "S", "t", "r", "i", "n", "g">>

NameValueOf == <<"v", "a", "l", "u", "e", "O", "f">>

\* The built-in objects every realm holds before the call: for each class its
\* prototype object (odd address) and its constructor function (even address),
\* then the methods by which an object is turned into a string.
Classes == <<"Object", "Function", "Array", "String", "Number">>

Methods ==
    << [on |-> "Object",   name |-> NameToString, does |-> "tag"],
       [on |-> "Object",   name |-> NameValueOf,  does |-> "self"],
       [on |-> "Array",    name |-> NameToString, does |-> "join"],
       [on |-> "Function", name |-> NameToString, does |-> "text"] >>

MethodAddr(j) == 2 * Len(Classes) + j

ClassNo(cls) == CHOOSE i \in 1..Len(Classes) : Classes[i] = cls

ProtoAddr(cls) == 2 * ClassNo(cls) - 1

CtorAddr(cls) == 2 * ClassNo(cls)

NGlobals == 2 * Len(Classes) + Len(Methods)

IsGlobal(a) == a \in 1..NGlobals

\* An object: its class, its prototype (0 for null), its own properties and,
\* for an array, its length.
NewObject == [cls |-> "Object", proto |-> ProtoAddr("Object"), props |-> <<>>, len |-> 0]

NewArray == [cls |-> "Array", proto |-> ProtoAddr("Array"), props |-> <<>>, len |-> 0]

\* The own properties of the prototype object of cls.
ProtoProps(cls) ==
    LET mine == {j \in 1..Len(Methods) : Methods[j].on = cls}
    IN  [nm \in {NameConstructor} \cup {Methods[j].name : j \in mine} |->
            IF nm = NameConstructor THEN Ref(CtorAddr(cls))
            ELSE Ref(MethodAddr(CHOOSE j \in mine : Methods[j].name = nm))]

Builtins ==
    [a \in 1..NGlobals |->
        IF a > 2 * Len(Classes)
        THEN [cls |-> "Function", proto |-> ProtoAddr("Function"), props |-> <<>>, len |-> 0]
        ELSE
        LET cls == Classes[(a + 1) \div 2]
        IN  IF a % 2 = 1
            THEN [cls   |-> IF cls \in {"Array", "Function"} THEN cls ELSE "Object",
                  proto |-> IF cls = "Object" THEN 0 ELSE ProtoAddr("Object"),
                  props |-> ProtoProps(cls),
                  len   |-> 0]
            ELSE [cls   |-> "Function",
                  proto |-> ProtoAddr("Function"),
                  props |-> Put(<<>>, NamePrototype, Ref(ProtoAddr(cls))),
                  len   |-> 0]]

\* The address of `const result = {}`: the first object the call creates.
ResultAddr == NGlobals + 1

\* Array.isArray(val)
IsArray(h, val) == IsRef(val) /\ h[val.n].cls = "Array"

\* The property `name` looked up from object a along the prototype chain:
\* <<found, value>>.  An array's length is an own property of it.
RECURSIVE Lookup(_, _, _)
Lookup(h, a, name) ==
    IF a = 0 THEN <<FALSE, Undefined>>
    ELSE IF name \in DOMAIN h[a].props THEN <<TRUE, h[a].props[name]>>
    ELSE IF h[a].cls = "Array" /\ name = NameLength THEN <<TRUE, NumVal(h[a].len)>>
    ELSE Lookup(h, h[a].proto, name)

\* val[name] of a non-nullish val.  A string has its characters and its
\* length as own properties and inherits the rest from String.prototype; a
\* number inherits from Number.prototype.
GetV(h, val, name) ==
    IF IsRef(val) THEN Lookup(h, val.n, name)[2]
    ELSE IF val.t = "string"
    THEN IF name = NameLength THEN NumVal(Len(val.s))
         ELSE IF IsIndexKey(name) /\ DigitsValue(name) < Len(val.s)
         THEN StrVal(<<val.s[DigitsValue(name) + 1]>>)
         ELSE Lookup(h, ProtoAddr("String"), name)[2]
    ELSE Lookup(h, ProtoAddr("Number"), name)[2]

\* `name in val` for an object val: own or inherited.
HasProperty(h, val, name) == Lookup(h, val.n, name)[1]

\* The `prototype` of a built-in constructor is not writable.
ReadOnly(a, name) == a \in 1..(2 * Len(Classes)) /\ a % 2 = 0 /\ name = NamePrototype

\* val[name] = x in strict mode (an ES module): <<heap, error>>.  A primitive
\* target cannot take a property, nor can a property that is not writable
\* (TypeError); an array's length takes only a number (RangeError); an index
\* written to an array extends its length.
PutV(h, val, name, x) ==
    IF ~IsRef(val) THEN <<h, "TypeError">>
    ELSE IF ReadOnly(val.n, name) THEN <<h, "TypeError">>
    ELSE LET o == h[val.n]
         IN  IF o.cls = "Array" /\ name = NameLength
             THEN IF x.t = "number"
                  THEN <<[h EXCEPT ![val.n].len = x.n], "">>
                  ELSE <<h, "RangeError">>
             ELSE IF o.cls = "Array" /\ IsIndexKey(name)
             THEN <<[h EXCEPT ![val.n].props = Put(o.props, name, x),
                              ![val.n].len = Max(o.len, DigitsValue(name) + 1)], "">>
             ELSE <<[h EXCEPT ![val.n].props = Put(o.props, name, x)], "">>

\* No call of createURL is in progress and no URL object exists.
NoURL ==
    /\ base = Undefined
    /\ urls = <<>>
    /\ url = 0

\* No timer was made.
NoTimers ==
    /\ delay = 0
    /\ timeoutId = 0
    /\ timers = {}
    /\ created = 0
    /\ clock = 0
    /\ log = <<>>

\* No component uses the hook.
NoHook ==
    /\ toggled = FALSE
    /\ delayed = FALSE
    /\ seen = FALSE

\* No Result was made.
NoThrow == "nothing"

NoResults ==
    /\ results = <<>>
    /\ raised = NoThrow

AfterIdle == NoTimers /\ NoHook /\ NoResults

LaterIdle == NoURL /\ decoded = 0 /\ AfterIdle

(***************************************************************************)
(* parseFormData                                                           *)
(***************************************************************************)
\* The outcome of a step of the loop body: the heap, the cursor `obj`, and the
\* kind of error thrown ("" when none).
Step(h, obj, e) == [h |-> h, obj |-> obj, err |-> e]

\* An assignment in the place of ??=: what the property holds is replaced.
AlwaysAssign(h, target, name, fresh) ==
    LET h1  == Append(h, fresh)
        put == PutV(h1, target, name, Ref(Len(h1)))
    IN  IF put[2] # "" THEN [h |-> h, obj |-> target, err |-> put[2]]
        ELSE [h |-> put[1], obj |-> Ref(Len(h1)), err |-> ""]

\* cursor = (target[name] ??= fresh): the property is read; when it is
\* undefined a fresh object is created and assigned; the cursor takes the
\* property's value.
NullishAssign(h, target, name, fresh) ==
    LET cur == GetV(h, target, name)
    IN  IF ~IsNullish(cur) THEN Step(h, cur, "")
        ELSE LET h1  == Append(h, fresh)
                 put == PutV(h1, target, name, Ref(Len(h1)))
             IN  IF put[2] # "" THEN Step(h, target, put[2])
                 ELSE Step(put[1], Ref(Len(h1)), "")

\* if (Number.isNaN(idx) || idx < 0) throw
BadIndex(idx) == idx.nan \/ idx.n < 0

\* The branch of an accessor that ends with "]".
IndexedAccessor(h, obj, acc, isLast, v) ==
    LET start == IndexOf(acc, <<"[">>)
        idx   == ParseInt(Substring(acc, start + 1, Len(acc) - 1))
        kn    == Substring(acc, 0, start)
    IN  IF BadIndex(idx) THEN Step(h, obj, "IndexError")
        ELSE LET arr == NullishAssign(h, obj, kn, NewArray)
             IN  IF arr.err # "" THEN arr
                 ELSE IF isLast
                 THEN LET put == PutV(arr.h, arr.obj, ToStr(idx.n), v)
                      IN  Step(put[1], v, put[2])
                 ELSE NullishAssign(arr.h, arr.obj, ToStr(idx.n), NewObject)

\* The last accessor of a key, without brackets.
TerminalPlain(h, obj, acc, v) ==
    IF ~IsRef(obj) THEN Step(h, obj, "TypeError")
    ELSE IF HasProperty(h, obj, acc)
    THEN LET old == GetV(h, obj, acc)
         IN  IF IsArray(h, old)
             THEN LET put == PutV(h, old, ToStr(h[old.n].len), v)
                  IN  Step(put[1], obj, put[2])
             ELSE LET h1  == Append(h, [NewArray EXCEPT
                                            !.props = Put(Put(<<>>, <<"0">>, old), <<"1">>, v),
                                            !.len = 2])
                      put == PutV(h1, obj, acc, Ref(Len(h1)))
                  IN  Step(IF put[2] = "" THEN put[1] ELSE h, obj, put[2])
    ELSE LET put == PutV(h, obj, acc, v)
         IN  Step(put[1], obj, put[2])

\* One pass of the inner loop, for accessors[p].
Accessor(h, obj, acc, isLast, v) ==
    IF EndsWith(acc, <<"]">>) THEN IndexedAccessor(h, obj, acc, isLast, v)
    ELSE IF ~isLast THEN NullishAssign(h, obj, acc, NewObject)
    ELSE TerminalPlain(h, obj, acc, v)

\* The inner loop from position p on (p counts from 1).
RECURSIVE Walk(_, _, _, _, _)
Walk(h, obj, accessors, p, v) ==
    IF p > Len(accessors) THEN Step(h, obj, "")
    ELSE LET s == Accessor(h, obj, accessors[p], p = Len(accessors), v)
         IN  IF s.err # "" THEN s
             ELSE Walk(s.h, s.obj, accessors, p + 1, v)

\* The body of the outer loop for the entry [k, v].
Entry(h, k, v, sep) == Walk(h, Ref(ResultAddr), Split(k, sep), 1, StrVal(v))

\* The values of the modelled entries.
Values == {<<"x">>, <<"y">>}

\* The second argument left out.
Omitted == <<"undefined">>

\* separator = "."
WithDefault(arg) == IF arg = Omitted THEN <<".">> ELSE arg

\* parseFormData(data, separator) is entered: `const result = {}`.
Enter(keys, seps) ==
    /\ sepArg \in seps
    /\ separator = WithDefault(sepArg)
    /\ fields = keys
    /\ data = <<>>
    /\ heap = Builtins \o <<NewObject>>
    /\ pc = "loop"
    /\ err = ""
    /\ ret = 0
    /\ allowFalsy = FALSE
    /\ params = 0
    /\ pairs = <<>>
    /\ ix = 0
    /\ source = <<>>
    /\ LaterIdle

\* for (const [k, v] of data) { ... }: the iterator yields one more entry and
\* the body runs on it; an exception leaves the function.
Iterate ==
    /\ pc = "loop"
    /\ Len(data) < MaxEntries
    /\ \E k \in fields, v \in Values :
          LET s == Entry(heap, k, v, separator)
          IN  /\ data' = Append(data, [k |-> k, v |-> v])
              /\ heap' = s.h
              /\ err' = s.err
              /\ pc' = IF s.err = "" THEN "loop" ELSE "threw"
    /\ UNCHANGED <<sepArg, separator, fields, ret>>
    /\ UNCHANGED queryVars
    /\ UNCHANGED laterVars

\* The iterator is exhausted: `return result`.
Return ==
    /\ pc = "loop"
    /\ pc' = "returned"
    /\ ret' = ResultAddr
    /\ UNCHANGED <<sepArg, separator, data, fields, heap, err>>
    /\ UNCHANGED queryVars
    /\ UNCHANGED laterVars

Next == Iterate \/ Return

(***************************************************************************)
(* What the caller sees                                                    *)
(***************************************************************************)
\* The kind of a value: a Scalar, a Record, a Sequence, or a built-in object.
Kind(h, val) ==
    IF ~IsRef(val) THEN "Scalar"
    ELSE IF IsGlobal(val.n) THEN "Builtin"
    ELSE IF h[val.n].cls = "Array" THEN "Sequence"
    ELSE "Record"

\* The structure below val, by own properties (what deepStrictEqual compares).
RECURSIVE Tree(_, _)
Tree(h, val) ==
    IF ~IsRef(val) THEN [kind |-> "Scalar", s |-> val.s, props |-> <<>>, len |-> val.n]
    ELSE IF IsGlobal(val.n) THEN [kind |-> "Builtin", s |-> <<>>, props |-> <<>>, len |-> val.n]
    ELSE [kind  |-> Kind(h, val),
          s     |-> <<>>,
          props |-> [name \in DOMAIN h[val.n].props |-> Tree(h, h[val.n].props[name])],
          len   |-> h[val.n].len]

\* parseFormData as a function of the whole input: the loop body folded over
\* the entries, stopping at the first exception.
RECURSIVE Fold(_, _, _, _)
Fold(h, entries, i, sep) ==
    IF i > Len(entries) THEN [h |-> h, err |-> ""]
    ELSE LET s == Entry(h, entries[i].k, entries[i].v, sep)
         IN  IF s.err # "" THEN [h |-> s.h, err |-> s.err]
             ELSE Fold(s.h, entries, i + 1, sep)

Decode(entries, sep) == Fold(Builtins \o <<NewObject>>, entries, 1, sep)

\* The node of a tree at a path of property names; kind "Absent" when the
\* path leaves the tree.
Absent == [kind |-> "Absent", s |-> <<>>, props |-> <<>>, len |-> 0]

ScalarNode(v) == [kind |-> "Scalar", s |-> v, props |-> <<>>, len |-> 0]

RECURSIVE TreeAt(_, _)
TreeAt(tree, path) ==
    IF path = <<>> THEN tree
    ELSE IF path[1] \in DOMAIN tree.props
    THEN TreeAt(tree.props[path[1]], Tail(path))
    ELSE Absent

\* The tree under `result`.
ResultTree == Tree(heap, Ref(ResultAddr))

(***************************************************************************)
(* The accessors of a key, as the claims speak of them                     *)
(***************************************************************************)
\* The accessor the loop body derives from a segment: its name and, when
\* the segment ends with "]", its index.
Token(acc) ==
    IF EndsWith(acc, <<"]">>)
    THEN LET start == IndexOf(acc, <<"[">>)
         IN  [indexed |-> TRUE,
              name    |-> Substring(acc, 0, start),
              idx     |-> ParseInt(Substring(acc, start + 1, Len(acc) - 1))]
    ELSE [indexed |-> FALSE, name |-> acc, idx |-> [nan |-> FALSE, n |-> 0]]

Tokens(k) == LET segs == Split(k, separator) IN [i \in 1..Len(segs) |-> Token(segs[i])]

\* Every index of the key is one the loop body accepts.
Accepted(k) == \A i \in 1..Len(Tokens(k)) : ~BadIndex(Tokens(k)[i].idx)

\* No segment of the key ends with "]".
PlainKey(k) == \A i \in 1..Len(Tokens(k)) : ~Tokens(k)[i].indexed

\* The path of an accepted key through the tree: each accessor gives its
\* name and, when indexed, its index as a property name.
RECURSIVE StepsOf(_)
StepsOf(toks) ==
    IF toks = <<>> THEN <<>>
    ELSE (IF toks[1].indexed
          THEN <<[name |-> toks[1].name, index |-> FALSE],
                 [name |-> ToStr(toks[1].idx.n), index |-> TRUE]>>
          ELSE <<[name |-> toks[1].name, index |-> FALSE]>>) \o StepsOf(Tail(toks))

Steps(k) == StepsOf(Tokens(k))

Path(k) == [i \in 1..Len(Steps(k)) |-> Steps(k)[i].name]

IsPrefix(p, q) == Len(p) <= Len(q) /\ SubSeq(q, 1, Len(p)) = p

\* Two paths meet when one leads through the slot of the other.
Related(p, q) == IsPrefix(p, q) \/ IsPrefix(q, p)

\* What a key uses the slot after i steps as: a Record when a name follows, a
\* Sequence when an index follows, and at its end a plain or an indexed leaf.
Usage(k, i) ==
    LET st == Steps(k)
    IN  IF i < Len(st) THEN (IF st[i + 1].index THEN "Sequence" ELSE "Record")
        ELSE IF st[i].index THEN "Element" ELSE "Plain"

\* No slot is used in two ways by the keys (all of them accepted).
ShapeConsistent(keys) ==
    \A k1 \in keys, k2 \in keys :
        \A i \in 1..Min(Len(Steps(k1)), Len(Steps(k2))) :
            SubSeq(Path(k1), 1, i) = SubSeq(Path(k2), 1, i) => Usage(k1, i) = Usage(k2, i)

KeysOf(entries) == {entries[i].k : i \in 1..Len(entries)}

\* The values of the entries with key k, in input order.
RECURSIVE ValuesOf(_, _)
ValuesOf(entries, k) ==
    IF entries = <<>> THEN <<>>
    ELSE (IF entries[1].k = k THEN <<entries[1].v>> ELSE <<>>) \o ValuesOf(Tail(entries), k)

\* Only the entries of key k touch the slot of k.
Alone(k) ==
    \A j \in 1..Len(data) :
        data[j].k # k => Accepted(data[j].k) /\ ~Related(Path(data[j].k), Path(k))

(***************************************************************************)
(* Specifications: the same call over different forms                      *)
(***************************************************************************)
Dot == <<".">>

Colon == <<":">>

\* Forms of plain keys: repeated, nested, one that names a property every
\* object inherits, and one that is both a leaf and a parent.
PlainKeys ==
    { <<"a">>, <<"u">>, <<"u", ".", "a">>, <<"u", ":", "a">>, <<"u", ".", "b", ".", "a">>,
      NameConstructor }

SpecPlain == Enter(PlainKeys, {Omitted, Colon}) /\ [][Next]_vars

\* A name that a fresh object already answers to through its prototype.
Inherited(name) == Lookup(Builtins, ProtoAddr("Object"), name)[1]

OwnNamesOnly(k) == \A i \in 1..Len(Path(k)) : ~Inherited(Path(k)[i])

(***************************************************************************)
(* C1                                                                      *)
(***************************************************************************)
\* The slot of the plain key k holds what n occurrences accumulate to: the
\* bare scalar for n = 1, the Sequence of the n values in input order else.
Accumulated(k) ==
    LET vals == ValuesOf(data, k)
        node == TreeAt(ResultTree, Path(k))
    IN  IF Len(vals) = 1
        THEN node = ScalarNode(vals[1])
        ELSE /\ node.kind = "Sequence"
             /\ node.len = Len(vals)
             /\ DOMAIN node.props = {ToStr(j - 1) : j \in 1..Len(vals)}
             /\ \A j \in 1..Len(vals) : node.props[ToStr(j - 1)] = ScalarNode(vals[j])

\* C1: a terminal plain accessor that occurs n times at one path (and nothing
\* else at that path) leaves the bare scalar for n = 1 and the Sequence of
\* all n values in input order for n >= 2.
C1_RepeatedPlainKeyAccumulates ==
    err = "" =>
        \A k \in KeysOf(data) : (PlainKey(k) /\ Alone(k)) => Accumulated(k)

\* The same for keys none of whose names is inherited from Object.prototype.
C1_OwnNamesAccumulate ==
    err = "" =>
        \A k \in KeysOf(data) :
            (PlainKey(k) /\ Alone(k) /\ OwnNamesOnly(k)) => Accumulated(k)

C1_ThreeOccurrences ==
    /\ err = ""
    /\ \E k \in KeysOf(data) :
          /\ PlainKey(k) /\ Alone(k) /\ OwnNamesOnly(k)
          /\ Len(ValuesOf(data, k)) = 3
          /\ TreeAt(ResultTree, Path(k)).len = 3

\* Forms of indexed keys: a sparse Sequence with a two-digit index, a nested
\* one, one under an inherited name, and a plain key on the same name.
IndexKeys ==
    { <<"s", "[", "0", "]">>, <<"s", "[", "2", "]">>, <<"s", "[", "1", "0", "]">>,
      <<"u", ".", "s", "[", "1", "]">>, <<"s">>,
      NameConstructor \o <<"[", "0", "]">> }

SpecIndex == Enter(IndexKeys, {Omitted}) /\ [][Next]_vars

(***************************************************************************)
(* C2                                                                      *)
(***************************************************************************)
Last(q) == q[Len(q)]

Front(q) == SubSeq(q, 1, Len(q) - 1)

\* The key ends with an indexed accessor.
ElementKey(k) == Last(Tokens(k)).indexed

\* The entries that write an element of the property at path p.
ElementWriters(p) ==
    {j \in 1..Len(data) : ElementKey(data[j].k) /\ Front(Path(data[j].k)) = p}

\* The property at path p is written through terminal indexed accessors only.
OnlyElements(p) ==
    \A j \in 1..Len(data) : Related(Path(data[j].k), p) => j \in ElementWriters(p)

IndexWritten(j) == Last(Tokens(data[j].k)).idx.n

\* The Sequence at p has length 1 + the greatest index written, each written
\* position holds the value of its last writer, and the rest are holes.
SparseSequence(p) ==
    LET w    == ElementWriters(p)
        node == TreeAt(ResultTree, p)
        top  == CHOOSE j \in w : \A i \in w : IndexWritten(i) <= IndexWritten(j)
    IN  /\ node.kind = "Sequence"
        /\ node.len = IndexWritten(top) + 1
        /\ DOMAIN node.props = {ToStr(IndexWritten(j)) : j \in w}
        /\ \A j \in w :
              (\A i \in w : IndexWritten(i) = IndexWritten(j) => i <= j)
                  => node.props[ToStr(IndexWritten(j))] = ScalarNode(data[j].v)

\* C2: a property written only by name[i] = value is a Sequence of length
\* 1 + the greatest index, the last write of an index wins, the rest are holes.
C2_IndexedWritesMakeSparseSequence ==
    err = "" =>
        \A k \in KeysOf(data) :
            (ElementKey(k) /\ OnlyElements(Front(Path(k)))) => SparseSequence(Front(Path(k)))

\* The same for keys none of whose names is inherited from Object.prototype.
C2_OwnNamesMakeSparseSequence ==
    err = "" =>
        \A k \in KeysOf(data) :
            (ElementKey(k) /\ OnlyElements(Front(Path(k))) /\ OwnNamesOnly(k))
                => SparseSequence(Front(Path(k)))

C2_HoleAndOverwrite ==
    /\ err = ""
    /\ Len(data) = 3
    /\ data[1].k = <<"s", "[", "2", "]">> /\ data[2].k = <<"s", "[", "0", "]">>
    /\ data[3].k = <<"s", "[", "2", "]">> /\ data[3].v # data[1].v
    /\ TreeAt(ResultTree, <<<<"s">>>>).len = 3
    /\ <<"1">> \notin DOMAIN TreeAt(ResultTree, <<<<"s">>>>).props

\* Forms with bracket contents of every sort: an index, letters, a negative
\* number, digits followed by a letter, nothing; at the top and nested.
BracketKeys ==
    { <<"a">>, <<"s", "[", "0", "]">>, <<"s", "[", "x", "]">>,
      <<"s", "[", "-", "1", "]">>, <<"s", "[", "1", "x", "]">>, <<"s", "[", "]">>,
      <<"u", ".", "s", "[", "x", "]">> }

SpecBracket == Enter(BracketKeys, {Omitted}) /\ [][Next]_vars

(***************************************************************************)
(* C3, C4                                                                  *)
(***************************************************************************)
\* A non-negative base-10 integer: digits and nothing else.
IsNatural(content) ==
    content # <<>> /\ \A i \in 1..Len(content) : IsDigit(content[i])

\* What stands between the first "[" and the closing "]" of a segment.
BracketContent(seg) == SubSeq(seg, IndexOf(seg, <<"[">>) + 2, Len(seg) - 1)

\* Some segment of the key ends with "]" around something that is no
\* non-negative base-10 integer.
Malformed(k) ==
    \E i \in 1..Len(Split(k, separator)) :
        LET seg == Split(k, separator)[i]
        IN  EndsWith(seg, <<"]">>) /\ ~IsNatural(BracketContent(seg))

\* C3: the call fails with "index must be a positive integer" exactly when
\* some bracket content is not a non-negative base-10 integer.
C3_IndexErrorIffMalformed ==
    (\E k \in KeysOf(data) : Malformed(k)) <=> (pc = "threw" /\ err = "IndexError")

\* C4: with a malformed index anywhere in the input the call ends with the
\* index error and hands no Record to the caller.
C4_MalformedIndexAborts ==
    /\ (\E k \in KeysOf(data) : Malformed(k)) => (pc = "threw" /\ err = "IndexError")
    /\ pc = "threw" => ret = 0

\* Forms whose keys share prefixes: two properties of one Record, of one
\* element of a Sequence, of two elements, under an inherited name, and a
\* key that uses a parent as a leaf.
NestedKeys ==
    { <<"r", ".", "a">>, <<"r", ".", "b">>, <<"r">>,
      <<"u", "[", "0", "]", ".", "a">>, <<"u", "[", "0", "]", ".", "b">>,
      <<"u", "[", "1", "]", ".", "a">>,
      NameConstructor \o <<".", "a">> }

SpecNested == Enter(NestedKeys, {Omitted}) /\ [][Next]_vars

(***************************************************************************)
(* C5                                                                      *)
(***************************************************************************)
\* Along the key, every slot before the last holds the container the next
\* accessor needs, and the last slot holds something.
ContainersAlong(k) ==
    /\ \A i \in 1..(Len(Path(k)) - 1) :
          TreeAt(ResultTree, SubSeq(Path(k), 1, i)).kind = Usage(k, i)
    /\ TreeAt(ResultTree, Path(k)).kind # "Absent"

\* The objects created by the call are each held by one slot only.
NoSharedContainer ==
    \A a1 \in (NGlobals + 1)..Len(heap), a2 \in (NGlobals + 1)..Len(heap) :
        \A n1 \in DOMAIN heap[a1].props, n2 \in DOMAIN heap[a2].props :
            ( /\ IsRef(heap[a1].props[n1])
              /\ ~IsGlobal(heap[a1].props[n1].n)
              /\ heap[a1].props[n1] = heap[a2].props[n2] ) => (a1 = a2 /\ n1 = n2)

\* C5: entries sharing a prefix are written into one container, created on
\* first use and reused: nothing written earlier is lost, and the elements
\* of a Sequence are Records of their own.
C5_SharedPrefixSharesContainer ==
    (err = "" /\ ShapeConsistent(KeysOf(data))) =>
        /\ \A k \in KeysOf(data) : ContainersAlong(k)
        /\ NoSharedContainer

\* The same for keys none of whose names is inherited from Object.prototype.
C5_OwnNamesShareContainer ==
    (err = "" /\ ShapeConsistent(KeysOf(data)) /\ \A k \in KeysOf(data) : OwnNamesOnly(k)) =>
        /\ \A k \in KeysOf(data) : ContainersAlong(k)
        /\ NoSharedContainer

C5_TwoElementsTwoRecords ==
    /\ err = ""
    /\ Len(data) = 3
    /\ data[1].k = <<"u", "[", "0", "]", ".", "a">>
    /\ data[2].k = <<"u", "[", "1", "]", ".", "a">>
    /\ data[3].k = <<"u", "[", "0", "]", ".", "b">>
    /\ DOMAIN TreeAt(ResultTree, <<<<"u">>, <<"0">>>>).props = {<<"a">>, <<"b">>}
    /\ DOMAIN TreeAt(ResultTree, <<<<"u">>, <<"1">>>>).props = {<<"a">>}

(***************************************************************************)
(* C6                                                                      *)
(***************************************************************************)
\* The flat entries of a tree of Records: each scalar under the names that
\* lead to it, joined by the separator.
RECURSIVE Flatten(_, _, _)
Flatten(tree, prefix, top) ==
    IF tree.kind = "Scalar" THEN {<<prefix, tree.s>>}
    ELSE IF tree.kind = "Record"
    THEN UNION { Flatten(tree.props[name],
                         IF top THEN name ELSE prefix \o separator \o name,
                         FALSE) : name \in DOMAIN tree.props }
    ELSE {}

\* The keys of the input are distinct and none leads through another.
Apart(entries) ==
    \A i \in 1..Len(entries), j \in 1..Len(entries) :
        i # j => ~Related(Path(entries[i].k), Path(entries[j].k))

\* C6: for purely dotted keys (distinct, none a parent of another), decoding
\* and flattening the tree again gives each input key its input value.
C6_DottedKeysRoundTrip ==
    (err = "" /\ Apart(data) /\ \A k \in KeysOf(data) : PlainKey(k)) =>
        \A j \in 1..Len(data) :
            <<data[j].k, data[j].v>> \in Flatten(ResultTree, <<>>, TRUE)

\* The same for keys none of whose names is inherited from Object.prototype.
C6_OwnNamesRoundTrip ==
    ( /\ err = ""
      /\ Apart(data)
      /\ \A k \in KeysOf(data) : PlainKey(k) /\ OwnNamesOnly(k) ) =>
        /\ \A j \in 1..Len(data) :
              <<data[j].k, data[j].v>> \in Flatten(ResultTree, <<>>, TRUE)
        /\ Cardinality(Flatten(ResultTree, <<>>, TRUE)) = Len(data)

C6_ThreeLevels ==
    /\ err = ""
    /\ separator = Dot
    /\ Len(data) = 3
    /\ Apart(data)
    /\ <<<<"u", ".", "b", ".", "a">>, <<"x">>>> \in Flatten(ResultTree, <<>>, TRUE)
    /\ <<<<"u", ".", "a">>, <<"y">>>> \in Flatten(ResultTree, <<>>, TRUE)

\* Forms whose keys all end with an index: elements of one Sequence, nested
\* Sequences under two elements, a key that uses `s` as a Record, and one
\* that leads through the built-in prototype of every object.
ElementKeys ==
    { <<"s", "[", "0", "]">>, <<"s", "[", "1", "]">>,
      <<"u", "[", "0", "]", ".", "s", "[", "0", "]">>,
      <<"u", "[", "1", "]", ".", "s", "[", "0", "]">>,
      <<"s", ".", "s", "[", "0", "]">>,
      NameConstructor \o <<".">> \o NamePrototype \o <<".", "s", "[", "0", "]">> }

SpecElement == Enter(ElementKeys, {Omitted}) /\ [][Next]_vars

(***************************************************************************)
(* C7                                                                      *)
(***************************************************************************)
\* The accessor path of a key: names with their indices.
AccessorPath(k) ==
    [i \in 1..Len(Tokens(k)) |->
        <<Tokens(k)[i].name, Tokens(k)[i].indexed, Tokens(k)[i].idx.n>>]

\* Distinct keys, each ending with an index, no accessor path a prefix of
\* another.
ElementEntries(entries) ==
    /\ \A i \in 1..Len(entries) : Accepted(entries[i].k) /\ ElementKey(entries[i].k)
    /\ \A i \in 1..Len(entries), j \in 1..Len(entries) :
          i # j => /\ entries[i].k # entries[j].k
                   /\ ~IsPrefix(AccessorPath(entries[i].k), AccessorPath(entries[j].k))

Orders(n) == {f \in [1..n -> 1..n] : \A i \in 1..n, j \in 1..n : f[i] = f[j] => i = j}

\* Every order of the entries decodes to the tree built so far.
OrderIndependent ==
    \A f \in Orders(Len(data)) :
        LET d == Decode([i \in 1..Len(data) |-> data[f[i]]], separator)
        IN  d.err = "" /\ Tree(d.h, Ref(ResultAddr)) = ResultTree

\* C7: entries with distinct keys that all end with an index, none a prefix
\* of another (and none using a slot another uses differently), decode to
\* the same tree in every order.
C7_ElementOrderIrrelevant ==
    (err = "" /\ ElementEntries(data) /\ ShapeConsistent(KeysOf(data))) => OrderIndependent

\* The same for keys none of whose names is inherited from Object.prototype.
C7_OwnNamesOrderIrrelevant ==
    ( /\ err = ""
      /\ ElementEntries(data)
      /\ ShapeConsistent(KeysOf(data))
      /\ \A k \in KeysOf(data) : OwnNamesOnly(k) ) => OrderIndependent

\* The claim without the clause on slots used in two ways.
C7_AnyShapesOrderIrrelevant ==
    ( /\ err = ""
      /\ ElementEntries(data)
      /\ \A k \in KeysOf(data) : OwnNamesOnly(k) ) => OrderIndependent

\* Three elements given out of order, one of them inside an element.
C7_ElementsOutOfOrder ==
    /\ err = ""
    /\ Len(data) = 3
    /\ data[1].k = <<"s", "[", "1", "]">>
    /\ data[2].k = <<"u", "[", "1", "]", ".", "s", "[", "0", "]">>
    /\ data[3].k = <<"s", "[", "0", "]">>
    /\ OrderIndependent

\* Forms that use one slot in several ways: as a leaf and as a parent, as an
\* element and as a Record, by name and by index.
MixedKeys ==
    { <<"a">>, <<"r">>, <<"r", ".", "a">>, <<"r", "[", "0", "]">>,
      <<"u", "[", "0", "]">>, <<"u", "[", "0", "]", ".", "a">>, NameConstructor }

SpecMixed == Enter(MixedKeys, {Omitted}) /\ [][Next]_vars

(***************************************************************************)
(* C8                                                                      *)
(***************************************************************************)
\* The kind of the value a slot holds.
SlotKind(h, val) ==
    IF ~IsRef(val) THEN "Scalar"
    ELSE IF h[val.n].cls = "Array" THEN "Sequence"
    ELSE "Record"

\* The slots that exist: the own properties of every object.
Slots(h) == UNION {{<<a, name>> : name \in DOMAIN h[a].props} : a \in 1..Len(h)}

\* The slot keeps its kind over the step.
KeepsKind(sl) ==
    SlotKind(heap', heap'[sl[1]].props[sl[2]]) = SlotKind(heap, heap[sl[1]].props[sl[2]])

\* The slot is promoted: a key ending with a plain accessor found a Scalar
\* or a Record there and put the Sequence [old, new] in its place.
Promoted(sl) ==
    LET old == heap[sl[1]].props[sl[2]]
        new == heap'[sl[1]].props[sl[2]]
        e   == Last(data')
    IN  /\ ~Last(Tokens(e.k)).indexed
        /\ Last(Tokens(e.k)).name = sl[2]
        /\ SlotKind(heap, old) \in {"Scalar", "Record"}
        /\ SlotKind(heap', new) = "Sequence"
        /\ heap'[new.n].len = 2
        /\ heap'[new.n].props = Put(Put(<<>>, <<"0">>, old), <<"1">>, StrVal(e.v))

\* The slot is overwritten: a key ending with an indexed accessor wrote its
\* value at that position.
Overwritten(sl) ==
    LET e == Last(data')
    IN  /\ Last(Tokens(e.k)).indexed
        /\ ToStr(Last(Tokens(e.k)).idx.n) = sl[2]
        /\ heap'[sl[1]].props[sl[2]] = StrVal(e.v)

\* C8 as claimed: a slot, once created, keeps its kind for the whole call.
C8_SlotKeepsKind == [][\A sl \in Slots(heap) : KeepsKind(sl)]_vars

\* C8 as amended: a slot changes kind only by promotion to the Sequence
\* [old, new] or by the overwrite of an indexed position with a Scalar; no
\* slot is turned into a Record.
C8_KindChangesOnlyByPromotionOrOverwrite ==
    [][\A sl \in Slots(heap) : KeepsKind(sl) \/ Promoted(sl) \/ Overwritten(sl)]_vars

C8_PromotedAndOverwritten ==
    /\ err = ""
    /\ Len(data) = 3
    /\ data[1].k = <<"u", "[", "0", "]", ".", "a">>
    /\ data[2].k = <<"u", "[", "0", "]">>
    /\ data[3].k = <<"r">>
    /\ TreeAt(ResultTree, <<<<"u">>, <<"0">>>>).kind = "Scalar"

\* Forms for the separator: ":" and "." in one key, two separators in a row.
SeparatorKeys ==
    { <<"a">>, <<"a", ":", "b", ":", "c">>, <<"a", ".", "b", ":", "c">>,
      <<"a", ".", "b", ".", "c">>, <<"a", ":", ":", "b">>, <<"a", ":", "s", "[", "1", "]">> }

SpecSeparator == Enter(SeparatorKeys, {Omitted, Colon, <<":", ":">>}) /\ [][Next]_vars

(***************************************************************************)
(* C9                                                                      *)
(***************************************************************************)
RECURSIVE Join(_, _)
Join(segs, sep) ==
    IF Len(segs) = 1 THEN segs[1]
    ELSE segs[1] \o sep \o Join(Tail(segs), sep)

\* result[n1][n2]...: the value read along the names, inherited or own.
RECURSIVE ReadPath(_, _, _)
ReadPath(h, val, names) ==
    IF names = <<>> \/ IsNullish(val) THEN val
    ELSE ReadPath(h, GetV(h, val, names[1]), Tail(names))

\* The segments of k are what lies between the separators: joined by the
\* separator they give k back, and none holds a separator.
SplitAtSeparators(k) ==
    LET segs == Split(k, separator)
    IN  /\ Join(segs, separator) = k
        /\ \A i \in 1..Len(segs) : IndexOf(segs[i], separator) = -1

\* The last entry's value lies under its segments taken in order, each
\* segment but the last naming an object.
NestedInOrder(e) ==
    LET segs == Split(e.k, separator)
        leaf == ReadPath(heap, Ref(ResultAddr), segs)
    IN  /\ \A i \in 1..(Len(segs) - 1) :
              IsRef(ReadPath(heap, Ref(ResultAddr), SubSeq(segs, 1, i)))
        /\ \/ leaf = StrVal(e.v)
           \/ /\ IsArray(heap, leaf)
              /\ heap[leaf.n].props[ToStr(heap[leaf.n].len - 1)] = StrVal(e.v)

\* C9: a key is split at every separator and nowhere else, the separator is
\* "." when none is given, and the segments nest in their order.
C9_SplitsAtSeparatorOnly ==
    /\ sepArg = Omitted => separator = Dot
    /\ sepArg # Omitted => separator = sepArg
    /\ \A k \in KeysOf(data) : SplitAtSeparators(k)
    /\ (err = "" /\ data # <<>> /\ PlainKey(Last(data).k)) => NestedInOrder(Last(data))

C9_DotInsideName ==
    /\ sepArg = Colon
    /\ err = ""
    /\ Len(data) = 2
    /\ data[1].k = <<"a", ".", "b", ".", "c">>
    /\ data[2].k = <<"a", ".", "b", ":", "c">>
    /\ TreeAt(ResultTree, <<<<"a", ".", "b", ".", "c">>>>) = ScalarNode(data[1].v)
    /\ TreeAt(ResultTree, <<<<"a", ".", "b">>, <<"c">>>>) = ScalarNode(data[2].v)

\* Keys with a segment that holds no name: separators in a row, at the head
\* and at the tail, and segments that are a bracket group only.
EmptyKeys ==
    { <<"a">>, <<"a", ".", ".", "a">>, <<".", "a">>, <<"a", ".">>,
      <<"[", "0", "]">>, <<"5", "]">>, <<"a", ".", "[", "0", "]">> }

SpecEmpty == Enter(EmptyKeys, {Omitted}) /\ [][Next]_vars

(***************************************************************************)
(* C10                                                                     *)
(***************************************************************************)
\* C10: every accessor derived from a key has a name that is not empty, and
\* no object holds a property named by the empty string.
C10_NoEmptyName ==
    /\ \A k \in KeysOf(data) :
          \A i \in 1..Len(Tokens(k)) : Tokens(k)[i].name # <<>>
    /\ \A a \in 1..Len(heap) : <<>> \notin DOMAIN heap[a].props

\* A key that is a bracket group only has been decoded without an error.
C10_BracketGroupOnly ==
    /\ err = ""
    /\ Len(data) = 1
    /\ data[1].k = <<"[", "0", "]">>
    /\ TreeAt(ResultTree, <<<<>>, <<"0">>>>) = ScalarNode(data[1].v)

(***************************************************************************)
(* C11                                                                     *)
(***************************************************************************)
\* C11: when every bracket content of every key is a non-negative base-10
\* integer the call raises nothing, whatever shapes the entries give a path.
C11_OnlyIndexError ==
    (\A k \in KeysOf(data) : ~Malformed(k)) => err = ""

\* A Record used as a leaf afterwards: the call returns.
C11_MixedShapesReturned ==
    /\ pc = "returned"
    /\ err = ""
    /\ Len(data) = 2
    /\ data[1].k = <<"r", ".", "a">>
    /\ data[2].k = <<"r">>
    /\ TreeAt(ResultTree, <<<<"r">>>>).kind = "Sequence"

(***************************************************************************)
(* C12                                                                     *)
(***************************************************************************)
\* C12: the objects that exist before the call are as they were: the call
\* writes to the objects it creates only.
C12_WritesOnlyOwnContainers ==
    \A a \in 1..NGlobals : heap[a] = Builtins[a]

\* Two entries under one prefix, written into two objects of the call.
C12_OwnContainersWritten ==
    /\ pc = "returned"
    /\ Len(data) = 2
    /\ data[1].k = <<"r", ".", "a">>
    /\ data[2].k = <<"r", ".", "b">>
    /\ Len(heap) = NGlobals + 2
    /\ DOMAIN heap[ResultAddr + 1].props = {<<"a">>, <<"b">>}
    /\ \A a \in 1..NGlobals : heap[a] = Builtins[a]

(***************************************************************************)
(* parseSearchParams                                                       *)
(***************************************************************************)
\* The number of entries the modelled URLSearchParams may hold.
MaxPairs == 3

TextNull == <<"n", "u", "l", "l">>

TextUndefined == <<"u", "n", "d", "e", "f", "i", "n", "e", "d">>

\* getLiteralValue(value)
getLiteralValue(value) ==
    IF value = TextNull THEN Null
    ELSE IF value = TextUndefined THEN Undefined
    ELSE StrVal(value)

\* The array hint: x.endsWith("[]")
ArrayHint == <<"[", "]">>

\* target[name] = fresh for an object the statement creates: <<heap, error>>.
PutFresh(h, target, name, fresh) ==
    LET h1 == Append(h, fresh)
    IN  PutV(h1, target, name, Ref(Len(h1)))

\* [old]: an array literal of one element
ArrayOf(old) == [NewArray EXCEPT !.props = Put(<<>>, <<"0">>, old), !.len = 1]

\* arr.push(val)
Push(h, arr, val) ==
    IF ~IsArray(h, arr) THEN <<h, "TypeError">>
    ELSE PutV(h, arr, ToStr(h[arr.n].len), val)

\* The body of the loop of parseSearchParams for the entry [k, y], with
\* `result` at the address at: <<heap, error>>.
parseSearchParamsAt(h, at, k, y, falsy) ==
    LET val     == getLiteralValue(y)
        result  == Ref(at)
        isArray == EndsWith(k, ArrayHint) \/ HasProperty(h, result, k)
    IN  IF ~isArray /\ ~falsy /\ IsNullish(val) THEN <<h, "">>
        ELSE IF ~isArray THEN PutV(h, result, k, val)
        ELSE LET cur  == GetV(h, result, k)
                 made == IF cur = Undefined THEN PutFresh(h, result, k, NewArray)
                         ELSE IF ~IsArray(h, cur) THEN PutFresh(h, result, k, ArrayOf(cur))
                         ELSE <<h, "">>
             IN  IF made[2] # "" THEN made
                 ELSE Push(made[1], GetV(made[1], result, k), val)

\* The same when `result` is the first object the program creates.
parseSearchParamsEntry(h, k, y, falsy) == parseSearchParamsAt(h, ResultAddr, k, y, falsy)

\* The values of the modelled query entries.
QueryValues == {<<"x">>, TextNull, TextUndefined}

\* parseSearchParams(searchParams, allowFalsy) is entered: `const result = {}`.
EnterParse(keys) ==
    /\ allowFalsy \in BOOLEAN
    /\ fields = keys
    /\ data = <<>>
    /\ heap = Builtins \o <<NewObject>>
    /\ pc = "loop"
    /\ err = ""
    /\ ret = 0
    /\ sepArg = Omitted
    /\ separator = WithDefault(Omitted)
    /\ params = 0
    /\ pairs = <<>>
    /\ ix = 0
    /\ source = <<>>
    /\ LaterIdle

\* for (const [x, y] of searchParams.entries()) { ... }
ParseIterate ==
    /\ pc = "loop"
    /\ Len(data) < MaxPairs
    /\ \E k \in fields, y \in QueryValues :
          LET s == parseSearchParamsEntry(heap, k, y, allowFalsy)
          IN  /\ data' = Append(data, [k |-> k, v |-> y])
              /\ heap' = s[1]
              /\ err' = s[2]
              /\ pc' = IF s[2] = "" THEN "loop" ELSE "threw"
    /\ UNCHANGED <<fields, ret, allowFalsy, params, pairs, ix, source>>
    /\ UNCHANGED formVars
    /\ UNCHANGED laterVars

\* return result
ParseReturn ==
    /\ pc = "loop"
    /\ pc' = "returned"
    /\ ret' = ResultAddr
    /\ UNCHANGED <<data, fields, heap, err>>
    /\ UNCHANGED formVars
    /\ UNCHANGED queryVars
    /\ UNCHANGED laterVars

NextParse == ParseIterate \/ ParseReturn

\* Keys of a query: plain, with the array hint, and one every object inherits.
QueryKeys == {<<"a">>, <<"b">>, <<"a", "[", "]">>, NameConstructor}

SpecParse == EnterParse(QueryKeys) /\ [][NextParse]_vars

\* The result as the caller reads it: its own keys, the value of one, and the
\* elements of an array in order.
ResultKeys == DOMAIN heap[ResultAddr].props

ResultAt(k) == heap[ResultAddr].props[k]

Elements(h, arr) == [j \in 1..h[arr.n].len |-> GetV(h, arr, ToStr(j - 1))]

\* The normalized values of the entries of key k, in input order.
Normalized(k) ==
    LET ys == ValuesOf(data, k)
    IN  [j \in 1..Len(ys) |-> getLiteralValue(ys[j])]

\* q from its first element that is neither null nor undefined on.
RECURSIVE FromFirstKept(_)
FromFirstKept(q) ==
    IF q = <<>> \/ ~IsNullish(q[1]) THEN q ELSE FromFirstKept(Tail(q))

\* The key carries no array hint.
Plain(k) == ~EndsWith(k, ArrayHint)

(***************************************************************************)
(* createSearchParams                                                      *)
(***************************************************************************)
\* The number of keys the modelled params object may hold.
MaxProps == 2

\* Object and array literals, as the caller writes them: an array literal
\* lists its elements, an object literal its <<name, value>> pairs in order.
ArrayLit(elems) == [t |-> "array", elems |-> elems]

RecordLit(props) == [t |-> "record", elems |-> props]

\* The literals evaluated in order: <<heap, values>>; each object or array
\* literal makes a new object, after the literals inside it.
RECURSIVE AllocEach(_, _)
AllocEach(h, lits) ==
    IF lits = <<>> THEN <<h, <<>>>>
    ELSE LET lit == lits[1]
             one ==
                 IF lit.t = "array"
                 THEN LET r   == AllocEach(h, lit.elems)
                          obj == [NewArray EXCEPT
                                     !.props = [nm \in {ToStr(e - 1) : e \in 1..Len(lit.elems)} |->
                                                   r[2][DigitsValue(nm) + 1]],
                                     !.len = Len(lit.elems)]
                      IN  <<Append(r[1], obj), Ref(Len(r[1]) + 1)>>
                 ELSE IF lit.t = "record"
                 THEN LET r   == AllocEach(h, [e \in 1..Len(lit.elems) |-> lit.elems[e][2]])
                          obj == [NewObject EXCEPT
                                     !.props = [nm \in {lit.elems[e][1] : e \in 1..Len(lit.elems)} |->
                                                   r[2][CHOOSE e \in 1..Len(lit.elems) :
                                                            lit.elems[e][1] = nm]]]
                      IN  <<Append(r[1], obj), Ref(Len(r[1]) + 1)>>
                 ELSE <<h, lit>>
             rest == AllocEach(one[1], Tail(lits))
         IN  <<rest[1], <<one[2]>> \o rest[2]>>

\* One literal evaluated: <<heap, value>>.
Alloc(h, lit) == LET r == AllocEach(h, <<lit>>) IN <<r[1], r[2][1]>>

\* The index-like names of S in ascending order.
RECURSIVE Ascending(_)
Ascending(S) ==
    IF S = {} THEN <<>>
    ELSE LET lo == CHOOSE k \in S : \A o \in S : DigitsValue(k) <= DigitsValue(o)
         IN  <<lo>> \o Ascending(S \ {lo})

NotIndexKey(name) == ~IsIndexKey(name)

\* The own keys of an object whose properties were created in the order
\* `names`: the array indices ascending, then the other names as created.
OwnKeys(names) ==
    Ascending({names[j] : j \in {i \in 1..Len(names) : IsIndexKey(names[i])}})
        \o SelectSeq(names, NotIndexKey)

\* Object.entries(params)
ObjectEntries(h, a, names) ==
    [j \in 1..Len(names) |-> [k |-> OwnKeys(names)[j], v |-> h[a].props[OwnKeys(names)[j]]]]

\* typeof v
TypeOf(h, v) ==
    IF IsRef(v) THEN (IF h[v.n].cls = "Function" THEN "function" ELSE "object")
    ELSE IF v.t = "null" THEN "object"
    ELSE v.t

\* !!v
Truthy(v) ==
    IF IsNullish(v) THEN FALSE
    ELSE IF v.t = "string" THEN v.s # <<>>
    ELSE IF v.t = "number" THEN v.n # 0
    ELSE TRUE

IsCallable(h, v) == IsRef(v) /\ h[v.n].cls = "Function"

\* A primitive whose null and undefined give the empty string.
PrimitiveTextBlank(v) ==
    IF v.t = "string" THEN v.s
    ELSE IF v.t = "number" THEN ToStr(v.n)
    ELSE <<>>

\* The string of a primitive value.
PrimitiveText(v) ==
    IF v.t = "string" THEN v.s
    ELSE IF v.t = "number" THEN ToStr(v.n)
    ELSE IF v.t = "null" THEN TextNull
    ELSE TextUndefined

\* Object.prototype.toString.call(o): "[object Class]"
TagText(h, a) ==
    <<"[", "o", "b", "j", "e", "c", "t", " ">>
        \o (IF h[a].cls = "Array" THEN <<"A", "r", "r", "a", "y">>
            ELSE IF h[a].cls = "Function" THEN <<"F", "u", "n", "c", "t", "i", "o", "n">>
            ELSE <<"O", "b", "j", "e", "c", "t">>)
        \o <<"]">>

\* Function.prototype.toString.call(f): the text of a built-in begins so.
FunctionText == <<"f", "u", "n", "c", "t", "i", "o", "n">>

\* What the built-in method at address m does, if m is one.
Does(m) ==
    IF m.n > 2 * Len(Classes) /\ m.n <= NGlobals THEN Methods[m.n - 2 * Len(Classes)].does
    ELSE "self"

\* Texts joined with ",": <<text, error>>, the error the first among them.
RECURSIVE JoinTexts(_)
JoinTexts(texts) ==
    IF texts = <<>> THEN <<<<>>, "">>
    ELSE LET head == texts[1]
             rest == JoinTexts(Tail(texts))
         IN  IF head[2] # "" THEN head
             ELSE IF rest[2] # "" THEN rest
             ELSE <<head[1] \o (IF Len(texts) > 1 THEN <<",">> ELSE <<>>) \o rest[1], "">>

\* m.call(v) for a method m, `joined` being the elements of v joined:
\* <<primitive returned, text, error>>
CallMethod(h, m, v, joined) ==
    IF ~IsCallable(h, m) THEN <<FALSE, <<>>, "">>
    ELSE IF Does(m) = "tag" THEN <<TRUE, TagText(h, v.n), "">>
    ELSE IF Does(m) = "text" THEN <<TRUE, FunctionText, "">>
    ELSE IF Does(m) = "join"
    THEN IF IsArray(h, v)
         THEN <<joined[2] = "", joined[1], joined[2]>>
         ELSE <<TRUE, TagText(h, v.n), "">>
    ELSE <<FALSE, <<>>, "">>

\* The conversion of a value to a string, as URLSearchParams.set and .append
\* convert their arguments: <<text, error>>.  An object is asked for its
\* toString and then for its valueOf; one that answers with no primitive
\* cannot be converted (TypeError).  An array joins its elements with ",",
\* null and undefined giving the empty string.
RECURSIVE StringOf(_, _)
StringOf(h, v) ==
    IF ~IsRef(v) THEN <<PrimitiveText(v), "">>
    ELSE LET joined == JoinTexts([e \in 1..h[v.n].len |->
                            LET el == GetV(h, v, ToStr(e - 1))
                            IN  IF IsNullish(el) THEN <<<<>>, "">> ELSE StringOf(h, el)])
             first  == CallMethod(h, GetV(h, v, NameToString), v, joined)
         IN  IF first[3] # "" THEN <<<<>>, first[3]>>
             ELSE IF first[1] THEN <<first[2], "">>
             ELSE LET second == CallMethod(h, GetV(h, v, NameValueOf), v, joined)
                  IN  IF second[3] # "" THEN <<<<>>, second[3]>>
                      ELSE IF second[1] THEN <<second[2], "">>
                      ELSE <<<<>>, "TypeError">>

\* source.append(key, text)
AppendEntry(src, key, text) == Append(src, [k |-> key, v |-> text])

\* source.set(key, text): the first entry of the key takes the value and the
\* others of the key are removed; without one the entry is appended.
SetEntry(src, key, text) ==
    IF \A j \in 1..Len(src) : src[j].k # key
    THEN Append(src, [k |-> key, v |-> text])
    ELSE LET at   == CHOOSE j \in 1..Len(src) :
                        src[j].k = key /\ \A i \in 1..(j - 1) : src[i].k # key
             keep == {j \in 1..Len(src) : j = at \/ src[j].k # key}
             pos(n) == CHOOSE j \in keep : Cardinality({i \in keep : i <= j}) = n
         IN  [n \in 1..Cardinality(keep) |->
                 IF pos(n) = at THEN [k |-> key, v |-> text] ELSE src[pos(n)]]

\* val.forEach((x) => source.append(key, x)) from index j on: <<source, error>>
RECURSIVE ForEachAppend(_, _, _, _, _)
ForEachAppend(h, src, key, arr, j) ==
    IF j >= h[arr.n].len THEN <<src, "">>
    ELSE IF ToStr(j) \notin DOMAIN h[arr.n].props
    THEN ForEachAppend(h, src, key, arr, j + 1)
    ELSE LET text == StringOf(h, GetV(h, arr, ToStr(j)))
         IN  IF text[2] # "" THEN <<src, text[2]>>
             ELSE ForEachAppend(h, AppendEntry(src, key, text[1]), key, arr, j + 1)

\* !!obj && typeof obj === "object" && typeof objKey === "string"
KeyedInto(h, obj, objKey) ==
    Truthy(obj) /\ TypeOf(h, obj) = "object" /\ TypeOf(h, objKey) = "string"

\* A loop body that also drops the null or undefined an options record
\* yields.
createSearchParamsEntryFiltered(h, src, key, val, falsy) ==
    IF ~falsy /\ IsNullish(val) THEN <<src, "">>
    ELSE IF IsArray(h, val)
    THEN LET obj    == GetV(h, val, <<"0">>)
             objKey == GetV(h, val, <<"1">>)
         IN  IF h[val.n].len = 2 /\ KeyedInto(h, obj, objKey)
             THEN LET text == StringOf(h, GetV(h, obj, objKey.s))
                  IN  IF ~falsy /\ IsNullish(GetV(h, obj, objKey.s)) THEN <<src, "">>
                      ELSE <<IF text[2] = "" THEN SetEntry(src, key, text[1]) ELSE src, text[2]>>
             ELSE ForEachAppend(h, src, key, val, 0)
    ELSE LET text == StringOf(h, val)
         IN  <<IF text[2] = "" THEN SetEntry(src, key, text[1]) ELSE src, text[2]>>

\* The body of the loop of createSearchParams for [key, val]:
\* <<source, error>>.
createSearchParamsEntry(h, src, key, val, falsy) ==
    IF ~falsy /\ IsNullish(val) THEN <<src, "">>
    ELSE IF IsArray(h, val)
    THEN LET obj    == GetV(h, val, <<"0">>)
             objKey == GetV(h, val, <<"1">>)
         IN  IF h[val.n].len = 2 /\ KeyedInto(h, obj, objKey)
             THEN LET text == StringOf(h, GetV(h, obj, objKey.s))
                  IN  <<IF text[2] = "" THEN SetEntry(src, key, text[1]) ELSE src, text[2]>>
             ELSE ForEachAppend(h, src, key, val, 0)
    ELSE LET text == StringOf(h, val)
         IN  <<IF text[2] = "" THEN SetEntry(src, key, text[1]) ELSE src, text[2]>>

\* The names of the modelled params, in the order the caller writes them.
KeyNames == << <<"b">>, <<"1">>, <<"a", "[", "]">>, <<"c">> >>

OptionsLit == RecordLit(<< <<<<"y">>, StrVal(<<"Y">>)>> >>)

\* The values of the modelled params: scalars, arrays, options tuples,
\* two-element arrays that are none, and a string of the characters the
\* query syntax uses.
CreateValues ==
    << StrVal(<<"x">>), NumVal(10), Null, Undefined,
       ArrayLit(<<>>),
       ArrayLit(<<NumVal(7), Null, Undefined>>),
       ArrayLit(<<StrVal(<<"x">>), StrVal(<<"y">>)>>),
       ArrayLit(<<OptionsLit, StrVal(<<"y">>)>>),
       ArrayLit(<<OptionsLit, StrVal(<<"n">>)>>),
       ArrayLit(<<OptionsLit, NumVal(1)>>),
       ArrayLit(<<Null, StrVal(<<"y">>)>>),
       ArrayLit(<<ArrayLit(<<StrVal(<<"x">>), StrVal(<<"y">>)>>), StrVal(<<"0">>)>>),
       ArrayLit(<<RecordLit(<< <<NameToString, StrVal(<<"x">>)>> >>), NumVal(1)>>),
       StrVal(<<"&", "=", "+", " ", "%">>),
       ArrayLit(<<StrVal(<<"x">>)>>) >>

\* createSearchParams(params, allowFalsy) is entered:
\* `const source = new URLSearchParams(); const x = Object.entries(params)`.
CallCreate ==
    /\ allowFalsy \in BOOLEAN
    /\ \E n \in 0..MaxProps :
          \E f \in [1..n -> 1..Len(CreateValues)] :
              LET names == [j \in 1..n |-> KeyNames[j]]
                  made  == Alloc(Builtins, RecordLit([j \in 1..n |-> <<KeyNames[j], CreateValues[f[j]]>>]))
              IN  /\ heap = made[1]
                  /\ params = made[2].n
                  /\ pairs = ObjectEntries(made[1], made[2].n, names)
    /\ ix = 0
    /\ source = <<>>
    /\ pc = "each"
    /\ err = ""
    /\ ret = 0
    /\ data = <<>>
    /\ fields = {}
    /\ sepArg = Omitted
    /\ separator = WithDefault(Omitted)

\* A call of createSearchParams by itself.
EnterCreate == CallCreate /\ LaterIdle

\* for (let i = 0; i < x.length; i++) { ... }: one pass of the body; an
\* exception leaves the function.
CreateStep ==
    /\ pc = "each"
    /\ ix < Len(pairs)
    /\ LET s == createSearchParamsEntry(heap, source, pairs[ix + 1].k, pairs[ix + 1].v, allowFalsy)
       IN  /\ source' = s[1]
           /\ err' = s[2]
           /\ ix' = IF s[2] = "" THEN ix + 1 ELSE ix
           /\ pc' = IF s[2] = "" THEN "each" ELSE "threw"
    /\ UNCHANGED <<data, fields, heap, ret, allowFalsy, params, pairs>>
    /\ UNCHANGED formVars
    /\ UNCHANGED laterVars

\* return source: the caller receives the URLSearchParams that `source` is.
CreateReturn ==
    /\ pc = "each"
    /\ ix = Len(pairs)
    /\ pc' = "returned"
    /\ UNCHANGED <<data, fields, heap, err, ret>>
    /\ UNCHANGED formVars
    /\ UNCHANGED queryVars
    /\ UNCHANGED laterVars

NextCreate == CreateStep \/ CreateReturn

SpecCreate == EnterCreate /\ [][NextCreate]_vars

\* Both functions of the query package.
SpecQuery == (EnterParse(QueryKeys) \/ EnterCreate) /\ [][NextParse \/ NextCreate]_vars

\* The values source holds for key, in order.
RECURSIVE EmittedFor(_, _)
EmittedFor(src, key) ==
    IF src = <<>> THEN <<>>
    ELSE (IF src[1].k = key THEN <<src[1].v>> ELSE <<>>) \o EmittedFor(Tail(src), key)

(***************************************************************************)
(* C13                                                                     *)
(***************************************************************************)
\* The loop takes an entry whose value is 'null' or 'undefined' and whose
\* key has no array hint and was not written to the result before.
TakesNullishPlainEntry ==
    /\ data' # data
    /\ ~allowFalsy
    /\ IsNullish(getLiteralValue(Last(data').v))
    /\ Plain(Last(data').k)
    /\ Last(data').k \notin ResultKeys

\* C13: with allowFalsy = false an entry whose value is 'null' or 'undefined'
\* and whose key neither ends in "[]" nor is in the result already leaves the
\* result as it was.
C13_NullishPlainEntrySkipped == [][TakesNullishPlainEntry => heap' = heap]_vars

\* The same for keys that are not inherited from Object.prototype.
C13_OwnNamesNullishSkipped ==
    [][(TakesNullishPlainEntry /\ ~Inherited(Last(data').k)) => heap' = heap]_vars

\* No slot of the result that is not a Sequence holds null or undefined.
C13_NoNullishScalar ==
    ~allowFalsy => \A k \in ResultKeys : ~IsNullish(ResultAt(k))

C13_TwoEntriesSkipped ==
    /\ ~allowFalsy
    /\ pc = "returned"
    /\ data = << [k |-> <<"a">>, v |-> <<"x">>], [k |-> <<"b">>, v |-> TextNull],
                 [k |-> <<"b">>, v |-> TextUndefined] >>
    /\ ResultKeys = {<<"a">>}

(***************************************************************************)
(* C14                                                                     *)
(***************************************************************************)
\* C14: a key with the array hint maps to a Sequence however often it
\* occurs; a key without it that occurs once and is stored maps to its
\* normalized value itself.
C14_HintMakesSequence ==
    \A k \in KeysOf(data) :
        /\ ~Plain(k) => (k \in ResultKeys /\ IsArray(heap, ResultAt(k)))
        /\ (Plain(k) /\ Len(ValuesOf(data, k)) = 1 /\ k \in ResultKeys) =>
              ResultAt(k) = Normalized(k)[1]

\* The same for keys that are not inherited from Object.prototype; the single
\* value is stored unless it is skipped as null or undefined.
C14_OwnNamesHintMakesSequence ==
    \A k \in KeysOf(data) :
        /\ ~Plain(k) =>
              /\ k \in ResultKeys
              /\ IsArray(heap, ResultAt(k))
              /\ heap[ResultAt(k).n].len = Len(ValuesOf(data, k))
        /\ (Plain(k) /\ ~Inherited(k) /\ Len(ValuesOf(data, k)) = 1) =>
              IF ~allowFalsy /\ IsNullish(Normalized(k)[1])
              THEN k \notin ResultKeys
              ELSE k \in ResultKeys /\ ResultAt(k) = Normalized(k)[1]

C14_OneOfEach ==
    /\ pc = "returned"
    /\ Len(data) = 2
    /\ data[1] = [k |-> <<"a", "[", "]">>, v |-> <<"x">>]
    /\ data[2] = [k |-> <<"a">>, v |-> <<"x">>]
    /\ Elements(heap, ResultAt(<<"a", "[", "]">>)) = <<StrVal(<<"x">>)>>
    /\ ResultAt(<<"a">>) = StrVal(<<"x">>)

(***************************************************************************)
(* C15                                                                     *)
(***************************************************************************)
\* The slot of k holds one value for every entry of k: the value itself for
\* a plain key that occurs once, the Sequence of the values in input order
\* otherwise.
Gathered(k) ==
    LET vals == Normalized(k)
    IN  /\ k \in ResultKeys
        /\ IF Plain(k) /\ Len(vals) = 1
           THEN ResultAt(k) = vals[1]
           ELSE IsArray(heap, ResultAt(k)) /\ Elements(heap, ResultAt(k)) = vals

\* C15: with allowFalsy = true every entry contributes one value: a plain
\* key occurring once maps to its normalized value, a key occurring n >= 2
\* times to the Sequence of its n normalized values in input order.
C15_EveryEntryContributes ==
    allowFalsy => \A k \in KeysOf(data) : ~Inherited(k) => Gathered(k)

\* The same when the first value of a plain key is not 'undefined'.
C15_FirstDefinedContributes ==
    allowFalsy =>
        \A k \in KeysOf(data) :
            (~Inherited(k) /\ (Plain(k) => ValuesOf(data, k)[1] # TextUndefined)) => Gathered(k)

C15_NullPromoted ==
    /\ allowFalsy
    /\ pc = "returned"
    /\ data = << [k |-> <<"a">>, v |-> TextNull], [k |-> <<"a">>, v |-> <<"x">>],
                 [k |-> <<"a">>, v |-> TextUndefined] >>
    /\ Elements(heap, ResultAt(<<"a">>)) = <<Null, StrVal(<<"x">>), Undefined>>

(***************************************************************************)
(* C16                                                                     *)
(***************************************************************************)
\* The values of k from the first stored one on: all of them for a key with
\* the array hint, those from the first non-nullish one on otherwise.
Kept(k) == IF Plain(k) THEN FromFirstKept(Normalized(k)) ELSE Normalized(k)

ArrayValued(k) == ~Plain(k) \/ Len(Kept(k)) >= 2

HoldsKept(k) ==
    /\ k \in ResultKeys
    /\ IsArray(heap, ResultAt(k))
    /\ Elements(heap, ResultAt(k)) = Kept(k)

\* C16: with allowFalsy = false the Sequence of an array-valued key holds,
\* in input order, the normalized values of its entries from the first
\* stored one on, null and undefined included.
C16_ArrayValuedKeepsAll ==
    ~allowFalsy => \A k \in KeysOf(data) : ArrayValued(k) => HoldsKept(k)

\* The same for keys that are not inherited from Object.prototype.
C16_OwnNamesKeepAll ==
    ~allowFalsy => \A k \in KeysOf(data) : (ArrayValued(k) /\ ~Inherited(k)) => HoldsKept(k)

C16_NullAppended ==
    /\ ~allowFalsy
    /\ pc = "returned"
    /\ data = << [k |-> <<"a">>, v |-> TextNull], [k |-> <<"a">>, v |-> <<"x">>],
                 [k |-> <<"a">>, v |-> TextNull] >>
    /\ Elements(heap, ResultAt(<<"a">>)) = <<StrVal(<<"x">>), Null>>

(***************************************************************************)
(* C17                                                                     *)
(***************************************************************************)
\* C17: neither parseSearchParams nor createSearchParams raises an error.
C17_Total == err = ""

\* parseSearchParams raises none.
C17_DecoderTotal == params = 0 => (err = "" /\ pc # "threw")

\* A two-element array of a Record and a number went to the generic branch.
C17_FellBackToGeneric ==
    /\ pc = "returned"
    /\ err = ""
    /\ Len(pairs) = 1
    /\ IsArray(heap, pairs[1].v)
    /\ heap[pairs[1].v.n].len = 2
    /\ GetV(heap, pairs[1].v, <<"1">>) = NumVal(1)
    /\ Len(source) = 2
    /\ source[2].v = <<"1">>

(***************************************************************************)
(* C18                                                                     *)
(***************************************************************************)
\* What the scalar value of the j-th entry of params has emitted.
ScalarEmitted(j) ==
    LET e   == pairs[j]
        out == EmittedFor(source, e.k)
    IN  IF IsNullish(e.v)
        THEN IF allowFalsy
             THEN out = <<IF e.v = Null THEN TextNull ELSE TextUndefined>>
             ELSE out = <<>>
        ELSE out = <<IF e.v.t = "string" THEN e.v.s ELSE ToStr(e.v.n)>>

\* C18: a key whose value is null or undefined emits nothing when allowFalsy
\* is false and the one entry 'null' or 'undefined' when it is true; a key
\* with another scalar value emits one entry, the value as a string.
C18_ScalarsEmitted ==
    \A j \in 1..ix : ~IsRef(pairs[j].v) => ScalarEmitted(j)

C18_NullEmitted ==
    /\ pc = "returned"
    /\ allowFalsy
    /\ Len(pairs) = 2
    /\ pairs[1].v = Null
    /\ pairs[2].v = NumVal(10)
    /\ source = << [k |-> <<"1">>, v |-> TextNull], [k |-> <<"b">>, v |-> <<"1", "0">>] >>

(***************************************************************************)
(* C19                                                                     *)
(***************************************************************************)
\* An options tuple as the claim has it: two elements, the first a Record
\* (an object that is no array), the second a string.
OptionsTuple(h, v) ==
    /\ IsArray(h, v)
    /\ h[v.n].len = 2
    /\ IsRef(GetV(h, v, <<"0">>))
    /\ h[GetV(h, v, <<"0">>).n].cls = "Object"
    /\ GetV(h, v, <<"1">>).t = "string"

\* An options tuple as the code has it.
KeyedTuple(h, v) ==
    /\ IsArray(h, v)
    /\ h[v.n].len = 2
    /\ KeyedInto(h, GetV(h, v, <<"0">>), GetV(h, v, <<"1">>))

\* One text for each element of the array, null and undefined by name.
ElementTexts(h, arr) ==
    [j \in 1..h[arr.n].len |->
        LET el == GetV(h, arr, ToStr(j - 1))
        IN  IF el = Null THEN TextNull
            ELSE IF el = Undefined THEN TextUndefined
            ELSE StringOf(h, el)[1]]

\* optionsRecord[selectedKey] as a string
Resolved(h, v) == StringOf(h, GetV(h, GetV(h, v, <<"0">>), GetV(h, v, <<"1">>).s))[1]

\* C19: an array value is an options tuple exactly when it has two elements,
\* a Record and a string, and then emits the one entry of the lookup; every
\* other array emits one entry for each element.
C19_TupleIffRecordAndString ==
    \A j \in 1..ix :
        IsArray(heap, pairs[j].v) =>
            EmittedFor(source, pairs[j].k) =
                IF OptionsTuple(heap, pairs[j].v)
                THEN <<Resolved(heap, pairs[j].v)>>
                ELSE ElementTexts(heap, pairs[j].v)

\* The same with an array counted as a Record.
C19_TupleIffObjectAndString ==
    \A j \in 1..ix :
        IsArray(heap, pairs[j].v) =>
            EmittedFor(source, pairs[j].k) =
                IF KeyedTuple(heap, pairs[j].v)
                THEN <<Resolved(heap, pairs[j].v)>>
                ELSE ElementTexts(heap, pairs[j].v)

C19_TupleAndPair ==
    /\ pc = "returned"
    /\ Len(pairs) = 2
    /\ OptionsTuple(heap, pairs[2].v)
    /\ source = << [k |-> <<"1">>, v |-> <<"x">>], [k |-> <<"1">>, v |-> <<"y">>],
                   [k |-> <<"b">>, v |-> <<"Y">>] >>

(***************************************************************************)
(* C20                                                                     *)
(***************************************************************************)
\* The position in params of the key of an entry of source.
PairOf(key) == CHOOSE j \in 1..Len(pairs) : pairs[j].k = key

\* The entries of source follow the order of the keys of params: those of
\* one key are together, and keys come as params has them.
InKeyOrder ==
    \A a \in 1..Len(source), b \in 1..Len(source) :
        a < b => PairOf(source[a].k) <= PairOf(source[b].k)

\* C20: an array that is no options tuple emits one entry for each element,
\* in element order, null and undefined as 'null' and 'undefined' whatever
\* allowFalsy is; the entries of one key are together and the keys come in
\* the order of the keys of params.
C20_ArrayEmitsEachElement ==
    /\ InKeyOrder
    /\ \A j \in 1..ix :
          (IsArray(heap, pairs[j].v) /\ ~OptionsTuple(heap, pairs[j].v)) =>
              EmittedFor(source, pairs[j].k) = ElementTexts(heap, pairs[j].v)

\* The same with an array counted as a Record.
C20_GenericArrayEmitsEachElement ==
    /\ InKeyOrder
    /\ \A j \in 1..ix :
          (IsArray(heap, pairs[j].v) /\ ~KeyedTuple(heap, pairs[j].v)) =>
              EmittedFor(source, pairs[j].k) = ElementTexts(heap, pairs[j].v)

C20_NullElementEmitted ==
    /\ pc = "returned"
    /\ ~allowFalsy
    /\ Len(pairs) = 2
    /\ source = << [k |-> <<"1">>, v |-> <<"7">>], [k |-> <<"1">>, v |-> TextNull],
                   [k |-> <<"1">>, v |-> TextUndefined], [k |-> <<"b">>, v |-> <<"x">>] >>

(***************************************************************************)
(* createURL                                                               *)
(*                                                                         *)
(* A URL object is a record of the part before the query (scheme, host and *)
(* path), the query and the fragment; a missing query or fragment is null. *)
(* `base` is a string or a reference (t = "url") into urls.                *)
(***************************************************************************)
URLRef(n) == [t |-> "url", s |-> <<>>, n |-> n]

\* The characters the urlencoded serializer escapes, with the two hex digits
\* of each; a space becomes "+", every other modelled character is kept.
Escapes ==
    << <<"[", "5", "B">>, <<"]", "5", "D">>, <<",", "2", "C">>, <<"&", "2", "6">>,
       <<"=", "3", "D">>, <<"+", "2", "B">>, <<"%", "2", "5">>, <<"#", "2", "3">>,
       <<"?", "3", "F">>, <<":", "3", "A">>, <<"/", "2", "F">> >>

\* URLSearchParams.prototype.toString, one name or value.
RECURSIVE EncodeText(_)
EncodeText(s) ==
    IF s = <<>> THEN <<>>
    ELSE LET hit == {e \in 1..Len(Escapes) : Escapes[e][1] = s[1]}
         IN  (IF s[1] = " " THEN <<"+">>
              ELSE IF hit = {} THEN <<s[1]>>
              ELSE LET e == CHOOSE e \in hit : TRUE
                   IN  <<"%", Escapes[e][2], Escapes[e][3]>>)
             \o EncodeText(Tail(s))

\* URLSearchParams.prototype.toString: name=value joined by "&".
RECURSIVE SerializeEntries(_)
SerializeEntries(src) ==
    IF src = <<>> THEN <<>>
    ELSE EncodeText(src[1].k) \o <<"=">> \o EncodeText(src[1].v)
         \o (IF Len(src) = 1 THEN <<>> ELSE <<"&">> \o SerializeEntries(Tail(src)))

\* Percent-decoding of one name or value, "+" already replaced.
RECURSIVE PercentDecode(_)
PercentDecode(s) ==
    IF s = <<>> THEN <<>>
    ELSE LET hit == {e \in 1..Len(Escapes) :
                        /\ s[1] = "%"
                        /\ Len(s) >= 3
                        /\ Escapes[e][2] = s[2]
                        /\ Escapes[e][3] = s[3]}
         IN  IF hit = {} THEN <<s[1]>> \o PercentDecode(Tail(s))
             ELSE <<Escapes[CHOOSE e \in hit : TRUE][1]>> \o PercentDecode(SubSeq(s, 4, Len(s)))

PlusToSpace(s) == [i \in 1..Len(s) |-> IF s[i] = "+" THEN " " ELSE s[i]]

\* The urlencoded parser over the pieces between "&": an empty piece is
\* skipped, the others split at their first "=".
RECURSIVE ParsePieces(_)
ParsePieces(ps) ==
    IF ps = <<>> THEN <<>>
    ELSE LET p  == ps[1]
             at == IndexOf(p, <<"=">>)
             name  == IF at = -1 THEN p ELSE SubSeq(p, 1, at)
             value == IF at = -1 THEN <<>> ELSE SubSeq(p, at + 2, Len(p))
         IN  (IF p = <<>> THEN <<>>
              ELSE << [k |-> PercentDecode(PlusToSpace(name)),
                       v |-> PercentDecode(PlusToSpace(value))] >>)
             \o ParsePieces(Tail(ps))

\* url.searchParams: the entries of the query of u.
SearchParamsOf(u) ==
    IF u.query.t = "null" THEN <<>> ELSE ParsePieces(Split(u.query.s, <<"&">>))

\* The URL parser on an absolute URL string: the fragment starts at the first
\* "#", the query at the first "?" before it.
ParseHref(s) ==
    LET h     == IndexOf(s, <<"#">>)
        front == IF h = -1 THEN s ELSE SubSeq(s, 1, h)
        q     == IndexOf(front, <<"?">>)
    IN  [path     |-> IF q = -1 THEN front ELSE SubSeq(front, 1, q),
         query    |-> IF q = -1 THEN Null ELSE StrVal(SubSeq(front, q + 2, Len(front))),
         fragment |-> IF h = -1 THEN Null ELSE StrVal(SubSeq(s, h + 2, Len(s)))]

\* url.href: the URL serializer.
Href(u) ==
    u.path
    \o (IF u.query.t = "null" THEN <<>> ELSE <<"?">> \o u.query.s)
    \o (IF u.fragment.t = "null" THEN <<>> ELSE <<"#">> \o u.fragment.s)

\* A `new URL(b)` that hands back the object it is given.
SameURL(us, b) ==
    IF b.t = "url" THEN <<us, b.n>>
    ELSE <<Append(us, ParseHref(b.s)), Len(us) + 1>>

\* new URL(b): b is turned into a string (the href of a URL object) and
\* parsed into a new object: <<urls, the new object>>.
NewURL(us, b) ==
    <<Append(us, ParseHref(IF b.t = "url" THEN Href(us[b.n]) ELSE b.s)), Len(us) + 1>>

\* A search setter that adds the text to the query the URL has.
MergeSearch(u, text) ==
    IF text = <<>> THEN u
    ELSE [u EXCEPT !.query =
             StrVal(IF u.query.t = "null" \/ u.query.s = <<>> THEN text
                    ELSE u.query.s \o <<"&">> \o text)]

\* url.search = text: the empty string removes the query; otherwise one
\* leading "?" is dropped and the rest becomes the query, with "#" and the
\* space escaped as the query state of the URL parser escapes them.
SetSearch(u, text) ==
    IF text = <<>> THEN [u EXCEPT !.query = Null]
    ELSE LET input == IF text[1] = "?" THEN Tail(text) ELSE text
             esc(c) == IF c = "#" THEN <<"%", "2", "3">>
                       ELSE IF c = " " THEN <<"%", "2", "0">>
                       ELSE <<c>>
             Enc[j \in 0..Len(input)] ==
                 IF j = 0 THEN <<>> ELSE Enc[j - 1] \o esc(input[j])
         IN  [u EXCEPT !.query = StrVal(Enc[Len(input)])]

\* The bases of the modelled calls: strings without and with a query and a
\* fragment, and URL objects made of the same strings.
BaseTexts ==
    << <<"h", ":", "/", "p">>,
       <<"h", ":", "/", "p", "?", "b", "=", "0">>,
       <<"h", ":", "/", "p", "?", "q", "=", "1", "&", "b", "=", "0", "#", "f">> >>

\* createURL(base, params, allowFalsy) is entered and `const url = new
\* URL(base)` has run; createSearchParams(params, allowFalsy) is entered.
EnterURL ==
    /\ CallCreate
    /\ \E j \in 1..Len(BaseTexts) :
          \/ /\ base = StrVal(BaseTexts[j])
             /\ urls = NewURL(<<>>, base)[1]
             /\ url = NewURL(<<>>, base)[2]
          \/ /\ base = URLRef(1)
             /\ urls = NewURL(<<ParseHref(BaseTexts[j])>>, base)[1]
             /\ url = NewURL(<<ParseHref(BaseTexts[j])>>, base)[2]
    /\ decoded = 0
    /\ AfterIdle

\* url.search = createSearchParams(params, allowFalsy).toString(); return url
AssignSearch ==
    /\ pc = "returned"
    /\ url # 0
    /\ urls' = [urls EXCEPT ![url] = SetSearch(@, SerializeEntries(source))]
    /\ ret' = url
    /\ pc' = "done"
    /\ UNCHANGED <<data, fields, heap, err, base, url>>
    /\ UNCHANGED formVars
    /\ UNCHANGED queryVars
    /\ UNCHANGED roundVars
    /\ UNCHANGED afterVars

NextURL == CreateStep \/ CreateReturn \/ AssignSearch

SpecURL == EnterURL /\ [][NextURL]_vars

(***************************************************************************)
(* C21                                                                     *)
(***************************************************************************)
\* C21: createSearchParams and createURL leave their inputs unchanged: no
\* step changes an object of the heap (the source Record, its arrays and
\* options records), the base argument or, when the base is a URL object, any
\* component of that object; the URL returned is another object than the base.
C21_InputsUnchanged ==
    [][/\ heap' = heap
       /\ params' = params
       /\ base' = base
       /\ (base.t = "url" => urls'[base.n] = urls[base.n])
       /\ (pc' = "done" /\ base.t = "url" => ret' # base.n)]_vars

\* createURL returned for a URL object that has a query, with another query.
C21_URLBaseReturned ==
    /\ pc = "done"
    /\ base.t = "url"
    /\ urls[base.n].query.t = "string"
    /\ source # <<>>
    /\ urls[ret].query # urls[base.n].query

(***************************************************************************)
(* C22                                                                     *)
(***************************************************************************)
\* C22: the query of the URL createURL returns holds exactly the entries
\* createSearchParams produced, in their order, whatever query the base had;
\* when there is no entry the URL returned has no query.
C22_QueryIsTheEntries ==
    pc = "done" =>
        /\ SearchParamsOf(urls[ret]) = source
        /\ (source = <<>> => urls[ret].query = Null)

\* createURL returned entries for a base string that had a query.
C22_OldQueryReplaced ==
    /\ pc = "done"
    /\ base.t = "string"
    /\ SearchParamsOf(ParseHref(base.s)) # <<>>
    /\ Len(source) = 2
    /\ \E j \in 1..2 : \E i \in 1..Len(source[j].v) : source[j].v[i] = "&"

\* createURL returned without entries for a base that had a query.
C22_OldQueryRemoved ==
    /\ pc = "done"
    /\ base.t = "url"
    /\ urls[base.n].query.t = "string"
    /\ source = <<>>
    /\ Href(urls[ret]) = <<"h", ":", "/", "p", "#", "f">>

(***************************************************************************)
(* parseSearchParams(createSearchParams(params, allowFalsy), allowFalsy)   *)
(***************************************************************************)
\* parseSearchParams is entered with the URLSearchParams createSearchParams
\* returned: `const result = {}`.
ParseCreated ==
    /\ pc = "returned"
    /\ url = 0
    /\ decoded = 0
    /\ heap' = Append(heap, NewObject)
    /\ decoded' = Len(heap) + 1
    /\ data' = <<>>
    /\ pc' = "loop"
    /\ UNCHANGED <<fields, err, ret>>
    /\ UNCHANGED formVars
    /\ UNCHANGED queryVars
    /\ UNCHANGED urlVars
    /\ UNCHANGED afterVars

\* for (const [x, y] of searchParams.entries()) { ... } over the entries of source
ParseNext ==
    /\ pc = "loop"
    /\ decoded # 0
    /\ Len(data) < Len(source)
    /\ LET e == source[Len(data) + 1]
           s == parseSearchParamsAt(heap, decoded, e.k, e.v, allowFalsy)
       IN  /\ data' = Append(data, e)
           /\ heap' = s[1]
           /\ err' = s[2]
           /\ pc' = IF s[2] = "" THEN "loop" ELSE "threw"
    /\ UNCHANGED <<fields, ret>>
    /\ UNCHANGED formVars
    /\ UNCHANGED queryVars
    /\ UNCHANGED laterVars

\* return result
ParseDone ==
    /\ pc = "loop"
    /\ decoded # 0
    /\ Len(data) = Len(source)
    /\ pc' = "parsed"
    /\ ret' = decoded
    /\ UNCHANGED <<data, fields, heap, err>>
    /\ UNCHANGED formVars
    /\ UNCHANGED queryVars
    /\ UNCHANGED laterVars

NextRound == CreateStep \/ CreateReturn \/ ParseCreated \/ ParseNext \/ ParseDone

SpecRound == EnterCreate /\ [][NextRound]_vars

\* v is a string other than the literals 'null' and 'undefined'.
PlainString(v) == v.t = "string" /\ v.s # TextNull /\ v.s # TextUndefined

\* Every value of the source Record is such a string or an array of them.
StringsOnly(h, rec) ==
    \A k \in DOMAIN h[rec].props :
        LET v == h[rec].props[k]
        IN  \/ PlainString(v)
            \/ /\ IsArray(h, v)
               /\ \A j \in 1..h[v.n].len : PlainString(Elements(h, v)[j])

\* The value b read back equals the value a of the source: the same string,
\* or an array of the same strings in the same order.
SameValue(h, a, b) ==
    IF IsArray(h, a)
    THEN IsArray(h, b) /\ Elements(h, b) = Elements(h, a)
    ELSE b = a

\* The Record at address out equals the Record at address rec key by key.
SameRecord(h, rec, out) ==
    /\ DOMAIN h[out].props = DOMAIN h[rec].props
    /\ \A k \in DOMAIN h[rec].props : SameValue(h, h[rec].props[k], h[out].props[k])

(***************************************************************************)
(* C23                                                                     *)
(***************************************************************************)
\* C23: parseSearchParams reverses createSearchParams: for a source Record
\* of strings (other than 'null' and 'undefined') and arrays of such strings
\* the Record read back equals the source key by key, scalars as scalars and
\* arrays as arrays of the same length.
\* (Arrays without an element, which emit no entry at all, are left out.)
C23_RoundTrip ==
    (/\ pc = "parsed"
     /\ StringsOnly(heap, params)
     /\ \A k \in DOMAIN heap[params].props :
           LET v == heap[params].props[k]
           IN  IsArray(heap, v) => heap[v.n].len >= 1)
    => SameRecord(heap, params, ret)

\* C23 for arrays that come back as arrays: those of two elements and more,
\* and those of one element and more under a key with the array hint.
C23_RoundTripOfRepeatedKeys ==
    (/\ pc = "parsed"
     /\ StringsOnly(heap, params)
     /\ \A k \in DOMAIN heap[params].props :
           LET v == heap[params].props[k]
           IN  IsArray(heap, v) =>
                   \/ heap[v.n].len >= 2
                   \/ heap[v.n].len >= 1 /\ EndsWith(k, ArrayHint))
    => SameRecord(heap, params, ret)

\* A source of one scalar and one array of two strings was read back.
C23_ScalarAndArrayReadBack ==
    /\ pc = "parsed"
    /\ StringsOnly(heap, params)
    /\ Len(pairs) = 2
    /\ ~IsArray(heap, pairs[1].v)
    /\ IsArray(heap, pairs[2].v)
    /\ SameRecord(heap, params, ret)

(***************************************************************************)
(* C30                                                                     *)
(***************************************************************************)
\* optionsRecord[selectedKey] of the options tuple v
LookedUp(h, v) == GetV(h, GetV(h, v, <<"0">>), GetV(h, v, <<"1">>).s)

NamedKeys == {<<"a">>, NameConstructor, NameToString}

\* The same for a query, and one with the array hint.
NamedQueryKeys == {<<"b">>, NameConstructor, NameToString, <<"a", "[", "]">>}

\* The call in progress is one of parseFormData.
FormRun == fields = NamedKeys

NextDecoders == (FormRun /\ Next) \/ (~FormRun /\ NextParse)

SpecDecoders ==
    (Enter(NamedKeys, {Omitted}) \/ EnterParse(NamedQueryKeys)) /\ [][NextDecoders]_vars

\* The result is the Record {k: v}.
ResultIs(k, v) ==
    /\ DOMAIN heap[ResultAddr].props = {k}
    /\ heap[ResultAddr].props[k] = v

(***************************************************************************)
(* C28                                                                     *)
(***************************************************************************)
\* C28: the first occurrence of a plain key is stored as a bare scalar
\* whatever the name of the key: parseFormData on the single entry (k, v)
\* returns {k: v}, and so does parseSearchParams when k has no array hint
\* (v being neither 'null' nor 'undefined', which C13 has skipped).
C28_FirstOccurrenceIsScalar ==
    (pc = "returned" /\ Len(data) = 1) =>
        IF FormRun
        THEN ResultIs(data[1].k, StrVal(data[1].v))
        ELSE (Plain(data[1].k) /\ ~IsNullish(getLiteralValue(data[1].v)))
                 => ResultIs(data[1].k, StrVal(data[1].v))

\* The same for the keys that are no name of Object.prototype.
C28_OwnNameIsScalar ==
    (pc = "returned" /\ Len(data) = 1 /\ ~Inherited(data[1].k)) =>
        IF FormRun
        THEN ResultIs(data[1].k, StrVal(data[1].v))
        ELSE (Plain(data[1].k) /\ ~IsNullish(getLiteralValue(data[1].v)))
                 => ResultIs(data[1].k, StrVal(data[1].v))

\* parseSearchParams returned {b: "x"} for the single entry (b, x).
C28_OrdinaryKeyStored ==
    /\ pc = "returned"
    /\ ~FormRun
    /\ Len(data) = 1
    /\ data[1].k = <<"b">>
    /\ ResultIs(<<"b">>, StrVal(<<"x">>))

(***************************************************************************)
(* debounce                                                                *)
(*                                                                         *)
(* A timer is a record of its id, the time it is due, the callback it      *)
(* holds and the argument the callback has captured.  A timer that is due  *)
(* fires in a step of its own: run and clear may come first.  The log      *)
(* keeps, for each call of run, its argument, its time, the customDelay    *)
(* given (ms) and the id of the timer it made; for each invocation of      *)
(* func, its argument, its time and the id of the timer that fired.        *)
(***************************************************************************)
\* The number of run and clear calls of a run of the model, and its last ms.
MaxOps == 3

MaxClock == 3

\* No call of the codec is in progress and no Result was made.
RestIdle ==
    /\ sepArg = Omitted
    /\ separator = WithDefault(Omitted)
    /\ data = <<>>
    /\ fields = {}
    /\ heap = Builtins
    /\ pc = "idle"
    /\ err = ""
    /\ ret = 0
    /\ allowFalsy = FALSE
    /\ params = 0
    /\ pairs = <<>>
    /\ ix = 0
    /\ source = <<>>
    /\ NoURL
    /\ decoded = 0
    /\ NoResults

restVars == <<formVars, queryVars, urlVars, roundVars, resultVars,
              data, fields, heap, pc, err, ret>>

\* customDelay left out of run(arg0)
DelayOmitted == 0 - 1

\* The delays of the modelled calls: the default of the handle, customDelay.
Delays == {2}

CustomDelays == {DelayOmitted, 1}

\* The arguments func is run with.
Args == {"first", "second"}

\* A clearTimeout that cancels nothing.
ClearNothing(ts, id) == ts

\* clearTimeout(id)
ClearTimeout(ts, id) == {t \in ts : t.id # id}

\* A setTimeout that takes no notice of the delay.
SetTimeoutNow(ts, n, cb, arg, now, ms) ==
    ts \cup {[id |-> n, due |-> now, cb |-> cb, arg |-> arg]}

\* setTimeout(cb, ms) at time now, as the n-th timer created
SetTimeout(ts, n, cb, arg, now, ms) ==
    ts \cup {[id |-> n, due |-> now + ms, cb |-> cb, arg |-> arg]}

\* The timers the event loop may run now: those due, the earliest first and
\* among equals the one created first.
Ready(ts, now) ==
    {t \in ts : /\ t.due <= now
                /\ \A u \in ts : u.due > t.due \/ (u.due = t.due /\ u.id >= t.id)}

\* The calls of run and clear so far.
Ops(l) == Cardinality({j \in 1..Len(l) : l[j].op # "call"})

\* const handle = debounce(func, delay): `let timeoutId`
EnterDebounce ==
    /\ RestIdle
    /\ delay \in Delays
    /\ timeoutId = 0
    /\ timers = {}
    /\ created = 0
    /\ clock = 0
    /\ log = <<>>
    /\ NoHook

\* handle.run(arg0, customDelay)
Run ==
    /\ Ops(log) < MaxOps
    /\ \E arg0 \in Args, given \in CustomDelays :
          LET customDelay == IF given = DelayOmitted THEN delay ELSE given
          IN  /\ clock + customDelay <= MaxClock
              /\ timers' = SetTimeout(ClearTimeout(timers, timeoutId), created + 1,
                                      "func", arg0, clock, customDelay)
              /\ timeoutId' = created + 1
              /\ created' = created + 1
              /\ log' = Append(log, [op |-> "run", arg |-> arg0, at |-> clock,
                                    ms |-> given, id |-> created + 1])
    /\ UNCHANGED <<delay, clock>>
    /\ UNCHANGED restVars
    /\ UNCHANGED hookVars

\* handle.clear()
Clear ==
    /\ Ops(log) < MaxOps
    /\ timers' = ClearTimeout(timers, timeoutId)
    /\ log' = Append(log, [op |-> "clear", arg |-> "", at |-> clock, ms |-> 0, id |-> 0])
    /\ UNCHANGED <<delay, timeoutId, created, clock>>
    /\ UNCHANGED restVars
    /\ UNCHANGED hookVars

\* The timer fires: () => func.call(this, arg0)
Fire ==
    /\ \E t \in Ready(timers, clock) :
          /\ t.cb = "func"
          /\ timers' = timers \ {t}
          /\ log' = Append(log, [op |-> "call", arg |-> t.arg, at |-> clock, ms |-> 0, id |-> t.id])
    /\ UNCHANGED <<delay, timeoutId, created, clock>>
    /\ UNCHANGED restVars
    /\ UNCHANGED hookVars

\* One ms passes.
Tick ==
    /\ clock < MaxClock
    /\ clock' = clock + 1
    /\ UNCHANGED <<delay, timeoutId, timers, created, log>>
    /\ UNCHANGED restVars
    /\ UNCHANGED hookVars

NextDebounce == Run \/ Clear \/ Fire \/ Tick

SpecDebounce == EnterDebounce /\ [][NextDebounce]_vars

\* The event loop runs a timer that stays due, and time passes.
SpecDebounceLive == SpecDebounce /\ WF_vars(Fire) /\ WF_vars(Tick)

\* The step invokes func.
Invoked == Len(log') = Len(log) + 1 /\ Last(log').op = "call"

\* The step is a call of clear.
Cleared == Len(log') = Len(log) + 1 /\ Last(log').op = "clear"

\* The delay a logged call of run asked for: its customDelay, else the
\* default of the handle.
DelayOf(e) == IF e.ms = DelayOmitted THEN delay ELSE e.ms

\* The positions a log may have.
Positions == 1..(2 * MaxOps)

(***************************************************************************)
(* C24                                                                     *)
(***************************************************************************)
\* C24: func is invoked only for the most recent call of run, once the delay
\* of that call (customDelay, else the default) has passed and before any
\* other run, clear or invocation, and with the argument of that call; and a
\* call of run that no run or clear follows does lead to its invocation, so
\* that a burst of calls ends in exactly one invocation, that of the last.
C24_OnlyLastRunInvoked ==
    /\ [][Invoked =>
            /\ log # <<>>
            /\ Last(log).op = "run"
            /\ Last(log').id = Last(log).id
            /\ Last(log').arg = Last(log).arg
            /\ Last(log').at >= Last(log).at + DelayOf(Last(log))]_vars
    /\ \A n \in Positions :
          (Len(log) = n /\ log[n].op = "run") ~> (Len(log) > n)

\* Two calls of run, the second before the delay of the first has passed,
\* and one invocation, with the argument of the second.
C24_BurstInvokedOnce ==
    /\ Len(log) = 3
    /\ log[1].op = "run" /\ log[1].arg = "first"
    /\ log[2].op = "run" /\ log[2].arg = "second"
    /\ log[2].at < log[1].at + DelayOf(log[1])
    /\ log[2].ms = DelayOmitted
    /\ log[3].op = "call" /\ log[3].arg = "second"
    /\ clock = MaxClock
    /\ timers = {}

(***************************************************************************)
(* C25                                                                     *)
(***************************************************************************)
\* C25: func is never invoked for a call of run that was made before a call
\* of clear; clear cancels the pending timer, and with nothing pending it
\* changes nothing.
C25_ClearCancels ==
    [][/\ Invoked =>
            \A c \in 1..Len(log) :
                log[c].op = "clear" =>
                    \E r \in (c + 1)..Len(log) :
                        log[r].op = "run" /\ log[r].id = Last(log').id
       /\ Cleared => timers' = {} /\ timeoutId' = timeoutId
       /\ (Cleared /\ timers = {}) => timers' = timers]_vars

\* A call of run, a call of clear before its delay had passed, a second
\* call of run and its invocation.
C25_RunAfterClearInvoked ==
    /\ Len(log) = 4
    /\ log[1].op = "run" /\ log[1].arg = "first"
    /\ log[2].op = "clear"
    /\ log[2].at < log[1].at + DelayOf(log[1])
    /\ log[3].op = "run" /\ log[3].arg = "second"
    /\ log[4].op = "call" /\ log[4].arg = "second"

(***************************************************************************)
(* useDelayedToggleState                                                   *)
(*                                                                         *)
(* toggled and delayed are the two states of the component; seen is the    *)
(* `toggled` the current setState closure has captured, that of the last   *)
(* render.  A state change is followed by a render in a step of its own.   *)
(* The log keeps, for each call of the setter, the value x it computed,    *)
(* the branch it took, what the state it left for its timer held, whether  *)
(* the state it set changed, the id of its timer and whether a timer of an *)
(* earlier call was pending.                                               *)
(***************************************************************************)
\* The `delay` of the modelled components.
HookDelays == {2}

\* The arguments of the setter: a boolean, or the updater (prev) => !prev.
SetterValues == {"true", "false", "negate"}

\* typeof value === "function" ? value.call(undefined, toggled) : value
Computed(value, prev) ==
    IF value = "negate" THEN ~prev ELSE value = "true"

\* const [toggled, delayed, setState] = useDelayedToggleState(defaultValue, delay)
EnterHook ==
    /\ RestIdle
    /\ delay \in HookDelays
    /\ \E defaultValue \in BOOLEAN :
          /\ toggled = defaultValue
          /\ delayed = defaultValue
          /\ seen = defaultValue
    /\ timeoutId = 0
    /\ timers = {}
    /\ created = 0
    /\ clock = 0
    /\ log = <<>>

\* setState(value)
SetState ==
    /\ Len(log) < MaxOps
    /\ \E value \in SetterValues :
          LET x == Computed(value, seen)
          IN  IF seen
              THEN /\ clock + delay <= MaxClock
                   /\ toggled' = x
                   /\ delayed' = delayed
                   /\ timers' = SetTimeout(timers, created + 1, "setDelayed", x, clock, delay)
                   /\ log' = Append(log, [x |-> x, first |-> "toggled", old |-> delayed,
                                          flip |-> x # toggled,
                                          id |-> created + 1, alone |-> timers = {}])
              ELSE /\ clock + 1 <= MaxClock
                   /\ delayed' = x
                   /\ toggled' = toggled
                   /\ timers' = SetTimeout(timers, created + 1, "setToggle", x, clock, 1)
                   /\ log' = Append(log, [x |-> x, first |-> "delayed", old |-> toggled,
                                          flip |-> x # delayed,
                                          id |-> created + 1, alone |-> timers = {}])
    /\ created' = created + 1
    /\ UNCHANGED <<delay, timeoutId, clock, seen>>
    /\ UNCHANGED restVars

\* A timer of the setter fires: () => setDelayed(x) or () => setToggle(x)
FireSet ==
    /\ \E t \in Ready(timers, clock) :
          /\ t.cb \in {"setDelayed", "setToggle"}
          /\ timers' = timers \ {t}
          /\ delayed' = IF t.cb = "setDelayed" THEN t.arg ELSE delayed
          /\ toggled' = IF t.cb = "setToggle" THEN t.arg ELSE toggled
    /\ UNCHANGED <<delay, timeoutId, created, clock, log, seen>>
    /\ UNCHANGED restVars

\* The component renders: useCallback makes the closure anew when toggled
\* has changed.
Render ==
    /\ seen # toggled
    /\ seen' = toggled
    /\ UNCHANGED <<toggled, delayed>>
    /\ UNCHANGED timerVars
    /\ UNCHANGED restVars

NextHook == SetState \/ FireSet \/ Render \/ Tick

SpecHook == EnterHook /\ [][NextHook]_vars

\* The step is a call of the setter.
SetterCalled == Len(log') = Len(log) + 1

\* The timer of the most recent call of the setter is pending.
OwnTimerPending == log # <<>> /\ \E t \in timers : t.id = Last(log).id

\* The same, and the delay of that timer has not passed yet.
OwnTimerAhead ==
    log # <<>> /\ \E t \in timers : t.id = Last(log).id /\ clock < t.due

\* The state the most recent call has left for its timer.
Lagging == IF Last(log).first = "toggled" THEN delayed ELSE toggled

(***************************************************************************)
(* C27                                                                     *)
(***************************************************************************)
\* C27: once every timer has fired, toggled and delayed both hold the value
\* of the most recent call of the setter.
C27_StatesAgree ==
    (timers = {} /\ log # <<>>) =>
        toggled = Last(log).x /\ delayed = Last(log).x

\* The same when, at every call of the setter, no timer of an earlier call
\* was pending.
C27_AloneStatesAgree ==
    (timers = {} /\ log # <<>> /\ \A j \in 1..Len(log) : log[j].alone) =>
        toggled = Last(log).x /\ delayed = Last(log).x

\* Three calls, each after the timer of the one before, have left both
\* states at the value of the last.
C27_ThreeCallsSettled ==
    /\ timers = {}
    /\ Len(log) = 3
    /\ \A j \in 1..3 : log[j].alone
    /\ log[1].x /\ ~log[2].x /\ log[3].x
    /\ toggled /\ delayed

(***************************************************************************)
(* C26                                                                     *)
(***************************************************************************)
\* C26: a call of the setter made while toggled is true gives toggled the
\* new value at once and leaves delayed alone, one made while toggled is
\* false gives delayed the new value at once and leaves toggled alone; the
\* state left alone takes the new value only when the timer of the call
\* fires: after a call that changed the first state, and until the delay of
\* its timer has passed, the other holds the new value only if it held it at
\* the call.
C26_OneBeforeTheOther ==
    [][/\ SetterCalled =>
            IF seen THEN toggled' = Last(log').x /\ delayed' = delayed
                    ELSE delayed' = Last(log').x /\ toggled' = toggled
       /\ (OwnTimerAhead' /\ Last(log').flip) =>
            (Lagging' = Last(log').x => Last(log').old = Last(log').x)]_vars

\* The same for the calls made when no timer of an earlier call was pending.
C26_AloneOneBeforeTheOther ==
    [][/\ SetterCalled =>
            IF seen THEN toggled' = Last(log').x /\ delayed' = delayed
                    ELSE delayed' = Last(log').x /\ toggled' = toggled
       /\ (OwnTimerAhead' /\ Last(log').flip /\ Last(log').alone) =>
            (Lagging' = Last(log').x => Last(log').old = Last(log').x)]_vars

\* toggled was true and took false at once; delayed is still true and the
\* timer of the call is pending one ms later.
C26_DelayedLags ==
    /\ Len(log) = 1
    /\ log[1].first = "toggled"
    /\ ~log[1].x
    /\ ~toggled
    /\ delayed
    /\ OwnTimerPending
    /\ clock = 1

(***************************************************************************)
(* Result                                                                  *)
(*                                                                         *)
(* A Result is a record of its two fields.  The values of the model are    *)
(* strings; `empty`, the symbol the module exports, is one of them.        *)
(***************************************************************************)
\* The number of Results a run of the model makes.
MaxResults == 2

\* export const empty = Symbol("empty")
Empty == "Symbol(empty)"

\* What callers hold: two ordinary values, undefined, and the symbol.
Held == {"v", "w", "undefined", Empty}

\* new Result(value, error)
NewResult(value, error) == [value |-> value, error |-> error]

\* Result.ResultOk(value)
ResultOk(value) == NewResult(value, Empty)

\* Result.err(error)
ResultErr(error) == NewResult(Empty, error)

isOk(r) == r.value # Empty

isErr(r) == r.error # Empty

\* unwrap() and unwrapErr(): what the call returns or throws.
Returns(v) == [threw |-> FALSE, v |-> v]

Throws(v) == [threw |-> TRUE, v |-> v]

unwrap(r) == IF r.value = Empty THEN Throws(r.error) ELSE Returns(r.value)

\* new Error("called `Result.unwrapErr()` on an `Ok` value")
ErrorOnOk == "Error: called Result.unwrapErr() on an Ok value"

unwrapErr(r) == IF r.error = Empty THEN Throws(ErrorOnOk) ELSE Returns(r.error)

\* The functions given to Result.run: fn returns or throws a value; err
\* returns what was thrown, returns a value of its own, or throws.
Fns == {Returns(v) : v \in Held} \cup {Throws(v) : v \in Held}

Handlers == {"same", "w", Empty, "throws"}

\* err(x)
Handle(h, x) ==
    IF h = "throws" THEN Throws("handler")
    ELSE IF h = "same" THEN Returns(x)
    ELSE Returns(h)

\* Result.run(fn, err): <<the Result returned, what run threw>>; no Result
\* is returned when err throws, for the catch block is not guarded.
ResultRun(fn, h) ==
    IF ~fn.threw THEN <<ResultOk(fn.v), NoThrow>>
    ELSE IF Handle(h, fn.v).threw THEN <<NewResult(Empty, Empty), Handle(h, fn.v).v>>
    ELSE <<ResultErr(Handle(h, fn.v).v), NoThrow>>

\* No Result was made yet, and nothing else is in progress.
EnterResult == RestIdle /\ NoTimers /\ NoHook

othersVars == <<formVars, queryVars, urlVars, roundVars, timerVars, hookVars,
                data, fields, heap, pc, err, ret>>

\* Result.ResultOk(v)
CallOk ==
    /\ Len(results) < MaxResults
    /\ \E v \in Held :
          results' = Append(results, [by |-> "ok", given |-> Returns(v), h |-> "", r |-> ResultOk(v)])
    /\ raised' = NoThrow
    /\ UNCHANGED othersVars

\* Result.err(e)
CallErr ==
    /\ Len(results) < MaxResults
    /\ \E e \in Held :
          results' = Append(results, [by |-> "err", given |-> Returns(e), h |-> "", r |-> ResultErr(e)])
    /\ raised' = NoThrow
    /\ UNCHANGED othersVars

\* Result.run(fn, err)
CallRun ==
    /\ Len(results) < MaxResults
    /\ \E fn \in Fns, h \in Handlers :
          LET out == ResultRun(fn, h)
          IN  /\ raised' = out[2]
              /\ results' = IF out[2] = NoThrow
                            THEN Append(results, [by |-> "run", given |-> fn, h |-> h, r |-> out[1]])
                            ELSE results
    /\ UNCHANGED othersVars

NextResult == CallOk \/ CallErr \/ CallRun

SpecResult == EnterResult /\ [][NextResult]_vars

\* Exactly one of isOk() and isErr() holds of r, unwrap() returns the value
\* exactly when isOk() holds and throws the stored error otherwise, and
\* unwrapErr() returns the error exactly when isErr() holds and throws
\* otherwise.
WellFormed(r) ==
    /\ isOk(r) # isErr(r)
    /\ unwrap(r) = (IF isOk(r) THEN Returns(r.value) ELSE Throws(r.error))
    /\ unwrapErr(r).threw = ~isErr(r)
    /\ (isErr(r) => unwrapErr(r) = Returns(r.error))

\* The Result e.r is what the call e should have made.
AsCalled(e) ==
    IF e.by = "ok" THEN isOk(e.r) /\ unwrap(e.r) = e.given
    ELSE IF e.by = "err" THEN isErr(e.r) /\ unwrapErr(e.r) = e.given
    ELSE IF ~e.given.threw THEN isOk(e.r) /\ unwrap(e.r) = e.given
    ELSE isErr(e.r) /\ unwrapErr(e.r) = Handle(e.h, e.given.v)

(***************************************************************************)
(* C29                                                                     *)
(***************************************************************************)
\* C29: every Result made by Result.ResultOk(v), Result.err(e) or Result.run is
\* either Ok or Err and not both, unwrap() and unwrapErr() return or throw
\* accordingly, the Result holds the value or error it was made of, and
\* Result.run throws nothing (when err throws nothing).
C29_OkOrErr ==
    /\ \A j \in 1..Len(results) : WellFormed(results[j].r) /\ AsCalled(results[j])
    /\ raised \in {NoThrow, "handler"}

\* The value or error the call e has put into its Result.
Stored(e) ==
    IF e.by = "run" /\ e.given.threw THEN Handle(e.h, e.given.v).v ELSE e.given.v

\* The same for the Results made of a value or error other than `empty`.
C29_OkOrErrWithoutEmpty ==
    /\ \A j \in 1..Len(results) :
          Stored(results[j]) # Empty => WellFormed(results[j].r) /\ AsCalled(results[j])
    /\ raised \in {NoThrow, "handler"}

\* Result.run made an Ok of what fn returned and an Err of what err made of
\* what fn threw.
C29_RunMadeBoth ==
    /\ Len(results) = 2
    /\ results[1].by = "run" /\ ~results[1].given.threw /\ isOk(results[1].r)
    /\ results[2].by = "run" /\ results[2].given.threw /\ isErr(results[2].r)
    /\ unwrapErr(results[2].r) = Returns("w")
    /\ results[2].h = "w"

============================================================================
